---- MODULE Spec2Model ----
(***************************************************************************)
(* Access-control layer of obsidian-local-rest-api-ng: the rules file      *)
(* (src/src/filters/rules-file.ts), the four matchers and the evaluation   *)
(* chain of FilterEngine (src/src/filters/filter-engine.ts).               *)
(*                                                                         *)
(* A JavaScript string is a sequence of one-character strings, so that     *)
(* trimming, splitting, prefix tests and case conversion are computed and  *)
(* not assumed.  An optional value (undefined | v) is <<>> or <<v>>.       *)
(***************************************************************************)
EXTENDS Integers, Sequences, FiniteSets, TLC

None == <<>>
Some(x) == <<x>>
IsSome(o) == Len(o) > 0
Get(o) == o[1]

(***************************************************************************)
(* String primitives of the JavaScript runtime used by the source.         *)
(***************************************************************************)
UpperChars == <<"A","B","C","D","E","F","G","H","I","J","K","L","M",
                "N","O","P","Q","R","S","T","U","V","W","X","Y","Z">>
LowerChars == <<"a","b","c","d","e","f","g","h","i","j","k","l","m",
                "n","o","p","q","r","s","t","u","v","w","x","y","z">>

ToLowerChar(c) ==
    IF \E i \in DOMAIN UpperChars : UpperChars[i] = c
    THEN LowerChars[CHOOSE i \in DOMAIN UpperChars : UpperChars[i] = c]
    ELSE c

ToUpperChar(c) ==
    IF \E i \in DOMAIN LowerChars : LowerChars[i] = c
    THEN UpperChars[CHOOSE i \in DOMAIN LowerChars : LowerChars[i] = c]
    ELSE c

ToLowerCase(s) == [i \in DOMAIN s |-> ToLowerChar(s[i])]
ToUpperCase(s) == [i \in DOMAIN s |-> ToUpperChar(s[i])]

IsSpace(c) == c \in {" ", "\t"}

RECURSIVE TrimStart(_)
TrimStart(s) ==
    IF Len(s) > 0 /\ IsSpace(Head(s)) THEN TrimStart(Tail(s)) ELSE s

RECURSIVE TrimEnd(_)
TrimEnd(s) ==
    IF Len(s) > 0 /\ IsSpace(s[Len(s)])
    THEN TrimEnd(SubSeq(s, 1, Len(s) - 1))
    ELSE s

Trim(s) == TrimEnd(TrimStart(s))

StartsWith(s, p) == Len(s) >= Len(p) /\ SubSeq(s, 1, Len(p)) = p

\* s.slice(n) and s.slice(a, b), with 0-based positions as in the source
Slice(s, n) == SubSeq(s, n + 1, Len(s))
SliceTo(s, a, b) == SubSeq(s, a + 1, b)

\* s.indexOf(c, from): 0-based position of the first c at or after from, or -1
IndexOfFrom(s, c, from) ==
    LET hits == {i \in (from + 1)..Len(s) : s[i] = c}
    IN  IF hits = {} THEN -1
        ELSE (CHOOSE i \in hits : \A j \in hits : i <= j) - 1

\* s.includes(sub) / s.indexOf(sub) !== -1 for a substring
Includes(s, sub) ==
    \E i \in 0..(Len(s) - Len(sub)) : SubSeq(s, i + 1, i + Len(sub)) = sub

\* length of the longest prefix of s made of whitespace (space = TRUE) or of
\* non-whitespace (space = FALSE): what \s+ and \S+ consume
RECURSIVE RunLen(_, _)
RunLen(s, space) ==
    IF Len(s) = 0 \/ (IsSpace(Head(s)) /= space) THEN 0
    ELSE 1 + RunLen(Tail(s), space)

\* s.split(sep) for a one-character separator
RECURSIVE SplitOn(_, _)
SplitOn(s, sep) ==
    LET i == IndexOfFrom(s, sep, 0)
    IN  IF i = -1 THEN <<s>>
        ELSE <<SliceTo(s, 0, i)>> \o SplitOn(Slice(s, i + 1), sep)

\* s.split(/\s+/)
RECURSIVE SplitSpaces(_)
SplitSpaces(s) ==
    LET n == RunLen(s, FALSE)
        rest == Slice(s, n)
        w == RunLen(rest, TRUE)
    IN  IF w = 0 THEN <<s>>
        ELSE <<SliceTo(s, 0, n)>> \o SplitSpaces(Slice(rest, w))

\* lines.join("\n")
RECURSIVE JoinLines(_)
JoinLines(lines) ==
    IF Len(lines) = 0 THEN <<>>
    ELSE IF Len(lines) = 1 THEN lines[1]
    ELSE lines[1] \o <<"\n">> \o JoinLines(Tail(lines))

RECURSIVE JoinWith(_, _)
JoinWith(parts, sep) ==
    IF Len(parts) = 0 THEN <<>>
    ELSE IF Len(parts) = 1 THEN parts[1]
    ELSE parts[1] \o sep \o JoinWith(Tail(parts), sep)

RECURSIVE SelectSeqOf(_, _)
SelectSeqOf(s, keep) ==
    IF Len(s) = 0 THEN <<>>
    ELSE (IF Head(s) \in keep THEN <<Head(s)>> ELSE <<>>)
         \o SelectSeqOf(Tail(s), keep)

(***************************************************************************)
(* rules-file.ts: the words of the grammar.                                *)
(***************************************************************************)
sAllow == <<"a","l","l","o","w">>
sDeny == <<"d","e","n","y">>
sFolder == <<"f","o","l","d","e","r">>
sName == <<"n","a","m","e">>
sTag == <<"t","a","g">>
sKeyword == <<"k","e","y","w","o","r","d">>
sGET == <<"G","E","T">>
sPUT == <<"P","U","T">>
sPOST == <<"P","O","S","T">>
sPATCH == <<"P","A","T","C","H">>
sDELETE == <<"D","E","L","E","T","E">>

VALID_MODES == {sAllow, sDeny}
VALID_TYPES == {sFolder, sName, sTag, sKeyword}
VALID_METHODS == {sGET, sPUT, sPOST, sPATCH, sDELETE}
DISABLED_PREFIX == <<"#","!","d","i","s","a","b","l","e","d"," ">>

ModeOf(word) == IF word = sAllow THEN "allow" ELSE "deny"
ModeWord(mode) == IF mode = "allow" THEN sAllow ELSE sDeny

TypeOf(word) ==
    IF word = sFolder THEN "folder"
    ELSE IF word = sName THEN "name"
    ELSE IF word = sTag THEN "tag"
    ELSE "keyword"

TypeWord(filterType) ==
    IF filterType = "folder" THEN sFolder
    ELSE IF filterType = "name" THEN sName
    ELSE IF filterType = "tag" THEN sTag
    ELSE sKeyword

\* position after the run of whitespace (space = TRUE) or of non-whitespace
\* (space = FALSE) of s that starts at the 0-based position from
RunEnd(s, from, space) == from + RunLen(Slice(s, from), space)

\* ends of the successive runs of s from position from, one run per kind
RECURSIVE RunEnds(_, _, _)
RunEnds(s, from, kinds) ==
    IF Len(kinds) = 0 THEN <<>>
    ELSE <<RunEnd(s, from, Head(kinds))>>
         \o RunEnds(s, RunEnd(s, from, Head(kinds)), Tail(kinds))

\* the groups of /^(\S+)\s+(\S+)\s+([\s\S]*)$/ given the ends e of the four runs
FirstSplitAt(content, e) ==
    IF e[1] > 0 /\ e[2] > e[1] /\ e[3] > e[2] /\ e[4] > e[3]
    THEN Some(<<SliceTo(content, 0, e[1]), SliceTo(content, e[2], e[3]),
                Slice(content, e[4])>>)
    ELSE None

\* content.match(/^(\S+)\s+(\S+)\s+([\s\S]*)$/): the three groups, or None
FirstSplit(content) ==
    FirstSplitAt(content, RunEnds(content, 0, <<FALSE, TRUE, FALSE, TRUE>>))

\* cleanPattern.match(/\/([gimsuy]+)$/): the flags, or None
RegexFlagChars == {"g", "i", "m", "s", "u", "y"}

RECURSIVE TrailingFlagLen(_)
TrailingFlagLen(s) ==
    IF Len(s) > 0 /\ s[Len(s)] \in RegexFlagChars
    THEN 1 + TrailingFlagLen(SubSeq(s, 1, Len(s) - 1))
    ELSE 0

FlagMatchAt(cleanPattern, k) ==
    IF k > 0 /\ Len(cleanPattern) > k /\ cleanPattern[Len(cleanPattern) - k] = "/"
    THEN Some(SubSeq(cleanPattern, Len(cleanPattern) - k + 1, Len(cleanPattern)))
    ELSE None

FlagMatch(cleanPattern) == FlagMatchAt(cleanPattern, TrailingFlagLen(cleanPattern))

\* parts.map((m) => m.trim().toUpperCase())
TrimUpper(parts) == [i \in DOMAIN parts |-> ToUpperCase(Trim(parts[i]))]

\* methodsStr.split(",").map(trim, toUpperCase).filter(VALID_METHODS.has)
ParseMethods(methodsStr) ==
    SelectSeqOf(TrimUpper(SplitOn(methodsStr, ",")), VALID_METHODS)

\* if (methods.length === 0) methods = undefined
NonEmptyMethods(methods) == IF Len(methods) = 0 THEN None ELSE Some(methods)

\* the optional methods of parseRuleLine: undefined unless methodsStr is truthy
MethodsOf(methodsStr) ==
    IF IsSome(methodsStr) /\ Len(Get(methodsStr)) > 0
    THEN NonEmptyMethods(ParseMethods(Get(methodsStr)))
    ELSE None

\* the RuleEntry with the 1-based number of its line
RuleEntry_OneBasedLine(mode, filterType, isRegex, stripped, flagMatch, methods, enabled, lineIndex) ==
    Some([rule |-> [id |-> lineIndex + 1,
                    mode |-> mode,
                    pattern |-> IF IsSome(flagMatch)
                                THEN SliceTo(stripped, 0,
                                             Len(stripped) - (Len(Get(flagMatch)) + 1))
                                ELSE stripped,
                    isRegex |-> isRegex,
                    enabled |-> enabled,
                    methods |-> methods,
                    regexFlags |-> flagMatch],
          filterType |-> filterType,
          lineNumber |-> lineIndex + 1])

\* the RuleEntry parseRuleLine returns; stripped is the pattern without "~"
RuleEntry(mode, filterType, isRegex, stripped, flagMatch, methods, enabled, lineIndex) ==
    Some([rule |-> [id |-> lineIndex + 1,
                    mode |-> mode,
                    pattern |-> IF IsSome(flagMatch)
                                THEN SliceTo(stripped, 0,
                                             Len(stripped) - (Len(Get(flagMatch)) + 1))
                                ELSE stripped,
                    isRegex |-> isRegex,
                    enabled |-> enabled,
                    methods |-> methods,
                    regexFlags |-> flagMatch],
          filterType |-> filterType,
          lineNumber |-> lineIndex])

\* parseRuleLine from the detection of regex patterns on
ParseRegex(mode, filterType, isRegex, stripped, methodsStr, enabled, lineIndex) ==
    RuleEntry(mode, filterType, isRegex, stripped,
              IF isRegex THEN FlagMatch(stripped) ELSE None,
              MethodsOf(methodsStr), enabled, lineIndex)

\* parseRuleLine reading an unknown mode as deny
ParseFields_UnknownModeDenies(mode, filterType, pattern, methodsStr, enabled, lineIndex) ==
    IF Len(pattern) = 0 THEN None
    ELSE IF filterType \notin VALID_TYPES THEN None
    ELSE ParseRegex(ModeOf(mode), TypeOf(filterType),
                    StartsWith(pattern, <<"~">>),
                    IF StartsWith(pattern, <<"~">>) THEN Slice(pattern, 1)
                    ELSE pattern,
                    methodsStr, enabled, lineIndex)

\* parseRuleLine from the validation of pattern, mode and type on
ParseFields(mode, filterType, pattern, methodsStr, enabled, lineIndex) ==
    IF Len(pattern) = 0 THEN None
    ELSE IF mode \notin VALID_MODES THEN None
    ELSE IF filterType \notin VALID_TYPES THEN None
    ELSE ParseRegex(ModeOf(mode), TypeOf(filterType),
                    StartsWith(pattern, <<"~">>),
                    IF StartsWith(pattern, <<"~">>) THEN Slice(pattern, 1)
                    ELSE pattern,
                    methodsStr, enabled, lineIndex)

\* afterQuote || undefined
OrUndefined(s) == IF Len(s) > 0 THEN Some(s) ELSE None

\* the quoted branch: closeQuote = trimmedRemainder.indexOf('"', 1)
ParseQuoted(modeStr, typeStr, trimmedRemainder, closeQuote, enabled, lineIndex) ==
    IF closeQuote = -1 THEN None
    ELSE ParseFields(ToLowerCase(modeStr), ToLowerCase(typeStr),
                     SliceTo(trimmedRemainder, 1, closeQuote),
                     OrUndefined(Trim(Slice(trimmedRemainder, closeQuote + 1))),
                     enabled, lineIndex)

\* the unquoted branch: remainderParts = trimmedRemainder.split(/\s+/)
ParseUnquoted(modeStr, typeStr, remainderParts, enabled, lineIndex) ==
    ParseFields(ToLowerCase(modeStr), ToLowerCase(typeStr), remainderParts[1],
                IF Len(remainderParts) > 1 THEN Some(remainderParts[2]) ELSE None,
                enabled, lineIndex)

\* parseRuleLine from the trimmed remainder on
ParseRemainder(modeStr, typeStr, trimmedRemainder, enabled, lineIndex) ==
    IF StartsWith(trimmedRemainder, <<"\"">>)
    THEN ParseQuoted(modeStr, typeStr, trimmedRemainder,
                     IndexOfFrom(trimmedRemainder, "\"", 1), enabled, lineIndex)
    ELSE ParseUnquoted(modeStr, typeStr, SplitSpaces(trimmedRemainder),
                       enabled, lineIndex)

\* parseRuleLine from the match of firstSplit on
ParseSplit(firstSplit, enabled, lineIndex) ==
    IF ~IsSome(firstSplit) THEN None
    ELSE ParseRemainder(Get(firstSplit)[1], Get(firstSplit)[2],
                        Trim(Get(firstSplit)[3]), enabled, lineIndex)

\* parseRuleLine(line, lineIndex): Some(entry) or None for an invalid line
ParseRuleLine(line, lineIndex) ==
    IF StartsWith(line, DISABLED_PREFIX)
    THEN ParseSplit(FirstSplit(Trim(Slice(line, Len(DISABLED_PREFIX)))),
                    FALSE, lineIndex)
    ELSE ParseSplit(FirstSplit(line), TRUE, lineIndex)

EmptyRules == [folder |-> <<>>, name |-> <<>>, tag |-> <<>>, keyword |-> <<>>]

\* parseRulesFile grouping the disabled rules with the enabled ones
PushEntry_KeepDisabled(acc, entry) ==
    IF ~IsSome(entry) THEN acc
    ELSE [entries |-> Append(acc.entries, Get(entry)),
          grouped |-> [acc.grouped EXCEPT ![Get(entry).filterType] =
                           Append(@, Get(entry).rule)]]

\* grouped[entry.filterType].push(entry.rule) for an enabled rule
PushEntry(acc, entry) ==
    IF ~IsSome(entry) THEN acc
    ELSE [entries |-> Append(acc.entries, Get(entry)),
          grouped |->
              IF Get(entry).rule.enabled
              THEN [acc.grouped EXCEPT ![Get(entry).filterType] =
                        Append(@, Get(entry).rule)]
              ELSE acc.grouped]

\* the loop body of parseRulesFile on a trimmed line at index i
ParseLine(acc, line, i) ==
    IF Len(line) = 0 THEN acc
    ELSE IF StartsWith(line, <<"#">>) /\ ~StartsWith(line, DISABLED_PREFIX)
    THEN acc
    ELSE PushEntry(acc, ParseRuleLine(line, i))

\* one iteration of the loop of parseRulesFile, on line i (0-based)
ParseStep(acc, lines, i) == ParseLine(acc, Trim(lines[i + 1]), i)

RECURSIVE ParseLoop(_, _, _)
ParseLoop(acc, lines, i) ==
    IF i >= Len(lines) THEN acc
    ELSE ParseLoop(ParseStep(acc, lines, i), lines, i + 1)

\* parseRulesFile(content)
ParseRulesFile(content) ==
    ParseLoop([grouped |-> EmptyRules, entries |-> <<>>],
              SplitOn(content, "\n"), 0)

\* serializeRule(filterType, rule)
SerializeRule(filterType, rule) ==
    LET prefix == IF rule.enabled THEN <<>> ELSE DISABLED_PREFIX
        flagSuffix == IF rule.isRegex /\ IsSome(rule.regexFlags)
                         /\ Len(Get(rule.regexFlags)) > 0
                      THEN <<"/">> \o Get(rule.regexFlags) ELSE <<>>
        rawPattern == IF rule.isRegex
                      THEN <<"~">> \o rule.pattern \o flagSuffix
                      ELSE rule.pattern
        patternStr == IF Includes(rawPattern, <<" ">>)
                      THEN <<"\"">> \o rawPattern \o <<"\"">>
                      ELSE rawPattern
        methodStr == IF IsSome(rule.methods) /\ Len(Get(rule.methods)) > 0
                     THEN <<" ", " ">> \o JoinWith(Get(rule.methods), <<",">>)
                     ELSE <<>>
    IN  prefix \o ModeWord(rule.mode) \o <<" ", " ">> \o TypeWord(filterType)
        \o <<" ", " ">> \o patternStr \o methodStr

(***************************************************************************)
(* External libraries, on the fragment of patterns the model uses.         *)
(* minimatch(path, pattern, {dot: true}): literal characters, "*" inside a *)
(* segment, "**" as a whole segment.  new RegExp(pattern).test(text):      *)
(* literal characters with an optional leading "^"; a pattern with an      *)
(* unbalanced "(" makes the constructor throw.                             *)
(***************************************************************************)
RECURSIVE SegMatch(_, _)
SegMatch(seg, pat) ==
    IF Len(pat) = 0 THEN Len(seg) = 0
    ELSE IF Head(pat) = "*"
    THEN SegMatch(seg, Tail(pat)) \/ (Len(seg) > 0 /\ SegMatch(Tail(seg), pat))
    ELSE Len(seg) > 0 /\ Head(seg) = Head(pat) /\ SegMatch(Tail(seg), Tail(pat))

RECURSIVE SegsMatch(_, _)
SegsMatch(segs, pats) ==
    IF Len(pats) = 0 THEN Len(segs) = 0
    ELSE IF Head(pats) = <<"*", "*">>
    THEN IF Len(pats) = 1 THEN Len(segs) > 0
         ELSE SegsMatch(segs, Tail(pats))
              \/ (Len(segs) > 0 /\ SegsMatch(Tail(segs), pats))
    ELSE Len(segs) > 0 /\ SegMatch(Head(segs), Head(pats))
         /\ SegsMatch(Tail(segs), Tail(pats))

Minimatch(p, pattern) == SegsMatch(SplitOn(p, "/"), SplitOn(pattern, "/"))

RECURSIVE Count(_, _)
Count(s, c) ==
    IF Len(s) = 0 THEN 0
    ELSE (IF Head(s) = c THEN 1 ELSE 0) + Count(Tail(s), c)

RegExpThrows(pattern) == Count(pattern, "(") /= Count(pattern, ")")

RegExpTest(pattern, text) ==
    IF StartsWith(pattern, <<"^">>) THEN StartsWith(text, Slice(pattern, 1))
    ELSE Includes(text, pattern)

(***************************************************************************)
(* Decisions.  reason is the template of the message with its two          *)
(* interpolated values.                                                    *)
(***************************************************************************)
Reason(text, mode, arg) == [text |-> text, mode |-> mode, arg |-> arg]

RuleDecision(text, filterType, rule) ==
    [allowed |-> rule.mode = "allow",
     reason |-> Reason(text, rule.mode, rule.pattern),
     matchedRule |-> Some(rule),
     filterType |-> Some(filterType)]

\* folder-filter.ts: checkFolderFilter(filePath, rules)
RECURSIVE CheckFolderFilter(_, _)
CheckFolderFilter(filePath, rules) ==
    IF Len(rules) = 0 THEN None
    ELSE LET rule == Head(rules)
         IN  IF ~rule.enabled THEN CheckFolderFilter(filePath, Tail(rules))
             ELSE IF rule.isRegex /\ RegExpThrows(rule.pattern)
             THEN CheckFolderFilter(filePath, Tail(rules))
             ELSE IF (IF rule.isRegex THEN RegExpTest(rule.pattern, filePath)
                      ELSE Minimatch(filePath, rule.pattern))
             THEN Some(RuleDecision("Folder filter", "folder", rule))
             ELSE CheckFolderFilter(filePath, Tail(rules))

\* filePath.substring(filePath.lastIndexOf("/") + 1)
RECURSIVE Basename(_)
Basename(filePath) ==
    LET i == IndexOfFrom(filePath, "/", 0)
    IN  IF i = -1 THEN filePath ELSE Basename(Slice(filePath, i + 1))

RECURSIVE NameRules(_, _)
NameRules(basename, rules) ==
    IF Len(rules) = 0 THEN None
    ELSE LET rule == Head(rules)
         IN  IF ~rule.enabled THEN NameRules(basename, Tail(rules))
             ELSE IF rule.isRegex /\ RegExpThrows(rule.pattern)
             THEN NameRules(basename, Tail(rules))
             ELSE IF (IF rule.isRegex THEN RegExpTest(rule.pattern, basename)
                      ELSE Minimatch(basename, rule.pattern))
             THEN Some(RuleDecision("Document name filter", "document-name", rule))
             ELSE NameRules(basename, Tail(rules))

\* checkDocumentNameFilter where the last matching rule wins
CheckDocumentNameFilter_LastMatch(filePath, rules) ==
    NameRules(Basename(filePath),
              [i \in DOMAIN rules |-> rules[Len(rules) + 1 - i]])

\* document-name-filter.ts: checkDocumentNameFilter(filePath, rules)
CheckDocumentNameFilter(filePath, rules) == NameRules(Basename(filePath), rules)

(***************************************************************************)
(* tag-filter.ts.  file is what the vault and the metadata cache answer    *)
(* for the path: exists (getAbstractFileByPath), cache (getFileCache:      *)
(* None, or the inline tags and the front-matter tags).                    *)
(***************************************************************************)
\* collectFileTags reporting a missing file as an unavailable cache
CollectFileTags_MissingAsUnavailable(file) ==
    IF ~file.exists \/ ~IsSome(file.cache)
    THEN [status |-> "cache_unavailable", tags |-> <<>>]
    ELSE LET cache == Get(file.cache)
             fm == [i \in DOMAIN cache.frontmatter |->
                       IF StartsWith(cache.frontmatter[i], <<"#">>)
                       THEN cache.frontmatter[i]
                       ELSE <<"#">> \o cache.frontmatter[i]]
             tags == cache.tags \o fm
         IN  [status |-> "found",
              tags |-> [i \in DOMAIN tags |-> ToLowerCase(tags[i])]]

\* collectFileTags reading the inline tags only
CollectFileTags_InlineOnly(file) ==
    IF ~file.exists THEN [status |-> "file_not_found", tags |-> <<>>]
    ELSE IF ~IsSome(file.cache) THEN [status |-> "cache_unavailable", tags |-> <<>>]
    ELSE [status |-> "found",
          tags |-> [i \in DOMAIN Get(file.cache).tags |->
                       ToLowerCase(Get(file.cache).tags[i])]]

\* collectFileTags(filePath, metadataCache, vault)
CollectFileTags(file) ==
    IF ~file.exists THEN [status |-> "file_not_found", tags |-> <<>>]
    ELSE IF ~IsSome(file.cache) THEN [status |-> "cache_unavailable", tags |-> <<>>]
    ELSE LET cache == Get(file.cache)
             fm == [i \in DOMAIN cache.frontmatter |->
                       IF StartsWith(cache.frontmatter[i], <<"#">>)
                       THEN cache.frontmatter[i]
                       ELSE <<"#">> \o cache.frontmatter[i]]
             tags == cache.tags \o fm
         IN  [status |-> "found",
              tags |-> [i \in DOMAIN tags |-> ToLowerCase(tags[i])]]

SeqIncludes(s, x) == \E i \in DOMAIN s : s[i] = x

GlobalTagDecision(allowed, text, tag) ==
    [allowed |-> allowed,
     reason |-> Reason(text, IF allowed THEN "allow" ELSE "deny", tag),
     matchedRule |-> None,
     filterType |-> Some("tag")]

\* checkGlobalTags testing the allow tag before the deny tag
CheckGlobalTags_AllowFirst(file, globalAllowTag, globalDenyTag) ==
    LET result == CollectFileTags(file)
    IN  IF result.status = "file_not_found" THEN None
        ELSE IF result.status = "cache_unavailable"
        THEN IF Len(globalDenyTag) > 0 \/ Len(globalAllowTag) > 0
             THEN Some(GlobalTagDecision(FALSE,
                      "Tag cache unavailable (global tags configured)", <<>>))
             ELSE None
        ELSE IF Len(globalAllowTag) > 0
                /\ SeqIncludes(result.tags, ToLowerCase(globalAllowTag))
        THEN Some(GlobalTagDecision(TRUE, "Global allow tag present", globalAllowTag))
        ELSE IF Len(globalDenyTag) > 0
                /\ SeqIncludes(result.tags, ToLowerCase(globalDenyTag))
        THEN Some(GlobalTagDecision(FALSE, "Global deny tag present", globalDenyTag))
        ELSE None

\* checkGlobalTags without the allow override
CheckGlobalTags_NoAllow(file, globalAllowTag, globalDenyTag) ==
    LET result == CollectFileTags(file)
    IN  IF result.status = "file_not_found" THEN None
        ELSE IF result.status = "cache_unavailable"
        THEN IF Len(globalDenyTag) > 0 \/ Len(globalAllowTag) > 0
             THEN Some(GlobalTagDecision(FALSE,
                      "Tag cache unavailable (global tags configured)", <<>>))
             ELSE None
        ELSE IF Len(globalDenyTag) > 0
                /\ SeqIncludes(result.tags, ToLowerCase(globalDenyTag))
        THEN Some(GlobalTagDecision(FALSE, "Global deny tag present", globalDenyTag))
        ELSE None

\* checkGlobalTags(filePath, metadataCache, vault, globalAllowTag, globalDenyTag)
CheckGlobalTags(file, globalAllowTag, globalDenyTag) ==
    LET result == CollectFileTags(file)
    IN  IF result.status = "file_not_found" THEN None
        ELSE IF result.status = "cache_unavailable"
        THEN IF Len(globalDenyTag) > 0 \/ Len(globalAllowTag) > 0
             THEN Some(GlobalTagDecision(FALSE,
                      "Tag cache unavailable (global tags configured)", <<>>))
             ELSE None
        ELSE IF Len(globalDenyTag) > 0
                /\ SeqIncludes(result.tags, ToLowerCase(globalDenyTag))
        THEN Some(GlobalTagDecision(FALSE, "Global deny tag present", globalDenyTag))
        ELSE IF Len(globalAllowTag) > 0
                /\ SeqIncludes(result.tags, ToLowerCase(globalAllowTag))
        THEN Some(GlobalTagDecision(TRUE, "Global allow tag present", globalAllowTag))
        ELSE None

\* the loop over the custom tag rules of checkTagFilter
RECURSIVE TagRules(_, _)
TagRules(lowerTags, rules) ==
    IF Len(rules) = 0 THEN None
    ELSE LET rule == Head(rules)
             requiredTags == LET parts == SplitOn(rule.pattern, "+")
                             IN  [i \in DOMAIN parts |-> ToLowerCase(Trim(parts[i]))]
             matched == IF Includes(rule.pattern, <<"+">>)
                        THEN \A i \in DOMAIN requiredTags :
                                 SeqIncludes(lowerTags, requiredTags[i])
                        ELSE SeqIncludes(lowerTags, ToLowerCase(rule.pattern))
         IN  IF ~rule.enabled THEN TagRules(lowerTags, Tail(rules))
             ELSE IF matched THEN Some(RuleDecision("Tag filter", "tag", rule))
             ELSE TagRules(lowerTags, Tail(rules))

\* checkTagFilter giving no opinion when the metadata is unavailable
CheckTagFilter_FailOpen(file, rules) ==
    LET result == CollectFileTags(file)
    IN  IF result.status = "found" THEN TagRules(result.tags, rules) ELSE None

\* checkTagFilter(filePath, rules, metadataCache, vault)
CheckTagFilter(file, rules) ==
    LET result == CollectFileTags(file)
    IN  IF result.status = "file_not_found" THEN None
        ELSE IF result.status = "cache_unavailable"
        THEN Some([allowed |-> FALSE,
                   reason |-> Reason("Tag cache unavailable (tag rules configured)",
                                     "deny", <<>>),
                   matchedRule |-> None,
                   filterType |-> Some("tag")])
        ELSE TagRules(result.tags, rules)

(***************************************************************************)
(* keyword-filter.ts: checkKeywordFilter, after vault.cachedRead(file)     *)
(* returned.  read is None when the read threw, Some(content) otherwise.   *)
(***************************************************************************)
RECURSIVE KeywordRules(_, _)
KeywordRules(content, rules) ==
    IF Len(rules) = 0 THEN None
    ELSE LET rule == Head(rules)
         IN  IF ~rule.enabled THEN KeywordRules(content, Tail(rules))
             ELSE IF rule.isRegex /\ RegExpThrows(rule.pattern)
             THEN KeywordRules(content, Tail(rules))
             ELSE IF (IF rule.isRegex THEN RegExpTest(rule.pattern, content)
                      ELSE Includes(content, rule.pattern))
             THEN Some(RuleDecision("Keyword filter", "keyword", rule))
             ELSE KeywordRules(content, Tail(rules))

\* checkKeywordFilter where the RegExp constructor's exception reaches the
\* caller's handler and the call denies
CheckKeywordFilterAfterRead_InvalidRegexFails(read, rules) ==
    IF ~IsSome(read) \/ \E i \in DOMAIN rules :
                           /\ rules[i].enabled /\ rules[i].isRegex
                           /\ RegExpThrows(rules[i].pattern)
    THEN Some([allowed |-> FALSE,
               reason |-> Reason("File read error", "deny", <<>>),
               matchedRule |-> None,
               filterType |-> Some("keyword")])
    ELSE KeywordRules(Get(read), rules)

\* checkKeywordFilter giving no opinion when the read fails
CheckKeywordFilterAfterRead_FailOpen(read, rules) ==
    IF ~IsSome(read) THEN None ELSE KeywordRules(Get(read), rules)

CheckKeywordFilterAfterRead(read, rules) ==
    IF ~IsSome(read)
    THEN Some([allowed |-> FALSE,
               reason |-> Reason("File read error", "deny", <<>>),
               matchedRule |-> None,
               filterType |-> Some("keyword")])
    ELSE KeywordRules(Get(read), rules)

(***************************************************************************)
(* filter-engine.ts: FilterEngine                                          *)
(***************************************************************************)
\* methodAllowed(rule, method)
MethodAllowed(rule, method) ==
    IF ~IsSome(rule) THEN TRUE
    ELSE IF ~IsSome(Get(rule).methods) THEN TRUE
    ELSE IF Len(Get(Get(rule).methods)) = 0 THEN TRUE
    ELSE SeqIncludes(Get(Get(rule).methods), ToUpperCase(method))

\* result && (!method || this.methodAllowed(result.matchedRule, method))
Applies(result, method) ==
    /\ IsSome(result)
    /\ \/ ~IsSome(method)
       \/ Len(Get(method)) = 0
       \/ MethodAllowed(Get(result).matchedRule, Get(method))

\* the default decision denying whatever the policy
DefaultDecision_Deny(settings) ==
    [allowed |-> FALSE,
     reason |-> Reason("Default policy", settings.defaultPolicy, <<>>),
     matchedRule |-> None,
     filterType |-> None]

DefaultDecision(settings) ==
    [allowed |-> settings.defaultPolicy = "allow",
     reason |-> Reason("Default policy", settings.defaultPolicy, <<>>),
     matchedRule |-> None,
     filterType |-> None]

\* evaluateFile fetching the content for the keyword rules before it
\* consults the tag rules
EvaluateSync_ReadBeforeTag(fileRules, filePath, settings, method, file) ==
    LET globalTagResult ==
            CheckGlobalTags(file, settings.globalAllowTag, settings.globalDenyTag)
    IN  IF IsSome(globalTagResult) THEN globalTagResult
        ELSE IF ~IsSome(fileRules) THEN Some(DefaultDecision(settings))
        ELSE
        LET rules == Get(fileRules)
            folder == CheckFolderFilter(filePath, rules.folder)
            name == CheckDocumentNameFilter(filePath, rules.name)
            tag == CheckTagFilter(file, rules.tag)
        IN  IF Len(rules.folder) > 0 /\ Applies(folder, method) THEN folder
            ELSE IF Len(rules.name) > 0 /\ Applies(name, method) THEN name
            ELSE IF Len(rules.keyword) > 0 /\ file.exists THEN None
            ELSE IF Len(rules.tag) > 0 /\ Applies(tag, method) THEN tag
            ELSE Some(DefaultDecision(settings))

\* evaluateFile consulting the name rules before the folder rules
EvaluateSync_NameFirst(fileRules, filePath, settings, method, file) ==
    LET globalTagResult ==
            CheckGlobalTags(file, settings.globalAllowTag, settings.globalDenyTag)
    IN  IF IsSome(globalTagResult) THEN globalTagResult
        ELSE IF ~IsSome(fileRules) THEN Some(DefaultDecision(settings))
        ELSE
        LET rules == Get(fileRules)
            folder == CheckFolderFilter(filePath, rules.folder)
            name == CheckDocumentNameFilter(filePath, rules.name)
            tag == CheckTagFilter(file, rules.tag)
        IN  IF Len(rules.name) > 0 /\ Applies(name, method) THEN name
            ELSE IF Len(rules.folder) > 0 /\ Applies(folder, method) THEN folder
            ELSE IF Len(rules.tag) > 0 /\ Applies(tag, method) THEN tag
            ELSE IF Len(rules.keyword) > 0 /\ file.exists THEN None
            ELSE Some(DefaultDecision(settings))

\* evaluateFile up to its first suspension: the decision it returns, or
\* None when it is suspended in vault.cachedRead
EvaluateSync(fileRules, filePath, settings, method, file) ==
    LET globalTagResult ==
            CheckGlobalTags(file, settings.globalAllowTag, settings.globalDenyTag)
    IN  IF IsSome(globalTagResult) THEN globalTagResult
        ELSE IF ~IsSome(fileRules) THEN Some(DefaultDecision(settings))
        ELSE
        LET rules == Get(fileRules)
            folder == CheckFolderFilter(filePath, rules.folder)
            name == CheckDocumentNameFilter(filePath, rules.name)
            tag == CheckTagFilter(file, rules.tag)
        IN  IF Len(rules.folder) > 0 /\ Applies(folder, method) THEN folder
            ELSE IF Len(rules.name) > 0 /\ Applies(name, method) THEN name
            ELSE IF Len(rules.tag) > 0 /\ Applies(tag, method) THEN tag
            ELSE IF Len(rules.keyword) > 0 /\ file.exists THEN None
            ELSE Some(DefaultDecision(settings))

\* evaluateFile from the return of vault.cachedRead to its own return
EvaluateResume(keywordRules, settings, method, read) ==
    LET result == CheckKeywordFilterAfterRead(read, keywordRules)
    IN  IF Applies(result, method) THEN Get(result)
        ELSE DefaultDecision(settings)

\* evaluateFile from its call to its return; read is what vault.cachedRead
\* answers if the call reaches it
EvaluateFile(fileRules, filePath, settings, method, file, read) ==
    LET d == EvaluateSync(fileRules, filePath, settings, method, file)
    IN  IF IsSome(d) THEN Get(d)
        ELSE EvaluateResume(Get(fileRules).keyword, settings, method, read)

(***************************************************************************)
(* The bounded universe: rules files of at most MaxLines lines, the paths, *)
(* methods, settings, vault answers and file contents of a request.        *)
(***************************************************************************)
MaxLines == 2

pathPa == <<"P", "/", "a">>
pathSa == <<"S", "/", "a">>
Paths == {pathPa, pathSa}

tagAllow == <<"#", "a">>
tagDeny == <<"#", "d">>

PatternOf(filterType) ==
    IF filterType = "folder" THEN <<"P", "/", "*", "*">>
    ELSE IF filterType = "name" THEN <<"a">>
    ELSE IF filterType = "tag" THEN <<"#", "s">>
    ELSE <<"k">>

FilterTypes == {"folder", "name", "tag", "keyword"}

RulesOf(filterType) ==
    {r \in [id : {0}, mode : {"allow", "deny"}, pattern : {PatternOf(filterType)},
            isRegex : {FALSE}, enabled : BOOLEAN,
            methods : {None, Some(<<sGET>>)}, regexFlags : {None}] :
        r.enabled \/ (~IsSome(r.methods)
                       /\ r.mode = (IF filterType \in {"folder", "tag"}
                                    THEN "allow" ELSE "deny"))}

commentLine == <<"#", " ", "c">>

Lines ==
    {commentLine}
    \cup UNION {{SerializeRule(t, r) : r \in RulesOf(t)} : t \in FilterTypes}

FileContents ==
    {JoinLines(ls) : ls \in UNION {[1..n -> Lines] : n \in 0..MaxLines}}

Methods == {None, Some(<<"g", "e", "t">>), Some(sPUT)}

SettingsSet ==
    {s \in [defaultPolicy : {"allow", "deny"},
            globalAllowTag : {<<>>, tagAllow},
            globalDenyTag : {<<>>, tagDeny}] :
        Len(s.globalAllowTag) > 0 => Len(s.globalDenyTag) > 0}

Caches ==
    [tags : {<<>>, <<(<<"#", "D">>)>>, <<(<<"#", "s">>)>>,
             <<(<<"#", "D">>), (<<"#", "s">>)>>},
     frontmatter : {<<>>, <<(<<"a">>)>>}]

FileStates ==
    {[exists |-> FALSE, cache |-> None]}
    \cup {[exists |-> TRUE, cache |-> c] : c \in {None} \cup {Some(x) : x \in Caches}}

Contents == {<<"x", "k">>, <<"x">>}

(***************************************************************************)
(* State: the rules file on disk, the engine's fileRules, and one          *)
(* evaluateFile call (idle, suspended in cachedRead, or returned).         *)
(***************************************************************************)
\* mc is one direct call of an exported matcher (as the matchers' own tests
\* make), on a rule list that may hold disabled rules.
\* bulk is one filterPaths or filterSearchResults call, calls are evaluateFile
\* calls in flight together, rf is one call of the rules-file functions.
VARIABLES rulesFile, fileRules, loaded, ev, mc, bulk, calls, rf, mu, req, log

vars == <<rulesFile, fileRules, loaded, ev, mc, bulk, calls, rf, mu, req, log>>

IdleEval ==
    [pc |-> "idle", filePath |-> <<>>, method |-> None,
     settings |-> [defaultPolicy |-> "deny", globalAllowTag |-> <<>>,
                   globalDenyTag |-> <<>>],
     file |-> [exists |-> FALSE, cache |-> None],
     rules |-> None, read |-> "none", content |-> <<>>, reads |-> 0,
     result |-> None]

IdleCall ==
    [pc |-> "idle", filterType |-> "", rules |-> <<>>, filePath |-> <<>>,
     file |-> [exists |-> FALSE, cache |-> None],
     read |-> "none", content |-> <<>>, result |-> None]

\* no filterPaths or filterSearchResults call in flight
IdleBulk ==
    [pc |-> "idle", op |-> "", input |-> <<>>,
     settings |-> IdleEval.settings, rules |-> None,
     vault |-> [p \in Paths |-> [exists |-> FALSE, cache |-> None]],
     items |-> <<>>, order |-> <<>>, output |-> <<>>]

\* the evaluateFile calls that run together
MaxCalls == 2

IdleCalls == [c \in 1..MaxCalls |-> IdleEval]

\* no call of parseRulesFile or serializeRule in flight
IdleRulesFileCall ==
    [pc |-> "idle", op |-> "", filterType |-> "", rule |-> None,
     content |-> <<>>, result |-> None]

\* no appendRule, removeRuleByLine or toggleRuleByLine call made
MaxMutations == 2
IdleMutation == [pc |-> "idle", op |-> "", line |-> <<>>, lineNumber |-> 0, enabled |-> FALSE, updated |-> <<>>]
IdleMutations == [original |-> None, calls |-> [c \in 1..MaxMutations |-> IdleMutation], history |-> <<>>]

\* no request received by the security middleware
IdleRequest ==
    [pc |-> "idle",
     settings |-> [securityFilterEnabled |-> TRUE, readOnlyMode |-> FALSE,
                   defaultPolicy |-> "deny", globalAllowTag |-> <<>>,
                   globalDenyTag |-> <<>>],
     method |-> None, path |-> None,
     activeFile |-> None, stage |-> "", target |-> <<>>, status |-> 0,
     errorCode |-> "", nextCalls |-> 0, nextErr |-> FALSE, evaluations |-> 0,
     responses |-> 0, interceptor |-> "none", dirPrefix |-> <<>>, logged |-> <<>>,
     rules |-> None, file |-> [exists |-> FALSE, cache |-> None],
     read |-> None, decision |-> None, body |-> None, sent |-> None]

\* no logAccess or logError call made, no log file written
MaxLogCalls == 3
LogKinds == {"access", "error"}
IdleLog ==
    [files |-> [k \in LogKinds |-> None],
     calls |-> [c \in 1..MaxLogCalls |-> [pc |-> "idle", kind |-> "", exists |-> FALSE]]]

\* rulesFile is what adapter.exists/read answer for access-rules.conf: None
\* when loadRulesFile finds no file or fails to read it.  fileRules is null
\* after construction.
Init ==
    /\ rulesFile \in {None} \cup {Some(c) : c \in FileContents}
    /\ fileRules = None
    /\ loaded = FALSE
    /\ ev = IdleEval
    /\ mc = IdleCall
    /\ bulk = IdleBulk
    /\ calls = IdleCalls
    /\ rf = IdleRulesFileCall
    /\ mu = IdleMutations
    /\ req = IdleRequest
    /\ log = IdleLog

\* parseRulesFile on the files of the universe, computed once
ParsedFiles == [c \in FileContents |-> ParseRulesFile(c)]

\* loadRulesFile(adapter, pluginDir): null when the file is missing or unreadable
LoadRulesFile(file) ==
    IF ~IsSome(file) THEN None
    ELSE IF Get(file) \in DOMAIN ParsedFiles THEN Some(ParsedFiles[Get(file)])
    ELSE Some(ParseRulesFile(Get(file)))

\* reloadRules(adapter, pluginDir)
ReloadRules ==
    /\ fileRules' = (LET result == LoadRulesFile(rulesFile)
                     IN  IF IsSome(result) THEN Some(Get(result).grouped) ELSE None)
    /\ loaded' = TRUE
    /\ UNCHANGED <<rulesFile, ev, mc, bulk, calls, rf, mu, req, log>>

\* evaluateFile(filePath, settings, method), up to its return or to the
\* suspension in vault.cachedRead; file is the vault's answer for filePath.
\* The middleware that calls it is created after the first load (onload).
\* Calls share no state, so a behaviour follows one call to its return.
EvaluateCall ==
    /\ loaded
    /\ ev.pc = "idle"
    /\ \E filePath \in Paths, method \in Methods, settings \in SettingsSet,
          file \in FileStates :
          LET d == EvaluateSync(fileRules, filePath, settings, method, file)
          IN  ev' = [pc |-> IF IsSome(d) THEN "done" ELSE "reading",
                     filePath |-> filePath, method |-> method,
                     settings |-> settings, file |-> file,
                     rules |-> fileRules,
                     read |-> IF IsSome(d) THEN "none" ELSE "pending",
                     content |-> <<>>,
                     reads |-> IF IsSome(d) THEN 0 ELSE 1,
                     result |-> d]
    /\ UNCHANGED <<rulesFile, fileRules, loaded, mc, bulk, calls, rf, mu, req, log>>

\* vault.cachedRead resolves with the content
ReadResolve ==
    /\ ev.pc = "reading"
    /\ \E content \in Contents :
          ev' = [ev EXCEPT !.pc = "done", !.read = "ok", !.content = content,
                           !.result = Some(EvaluateResume(Get(ev.rules).keyword,
                                               ev.settings, ev.method, Some(content)))]
    /\ UNCHANGED <<rulesFile, fileRules, loaded, mc, bulk, calls, rf, mu, req, log>>

\* vault.cachedRead rejects
ReadReject ==
    /\ ev.pc = "reading"
    /\ ev' = [ev EXCEPT !.pc = "done", !.read = "error",
                        !.result = Some(EvaluateResume(Get(ev.rules).keyword,
                                            ev.settings, ev.method, None))]
    /\ UNCHANGED <<rulesFile, fileRules, loaded, mc, bulk, calls, rf, mu, req, log>>

Next == ReloadRules \/ EvaluateCall \/ ReadResolve \/ ReadReject

Spec == Init /\ [][Next]_vars

(***************************************************************************)
(* Direct calls of the four matchers, on rule lists of at most             *)
(* MaxListRules rules, enabled or not, with two patterns per kind.         *)
(***************************************************************************)
MaxListRules == 2

ListPatterns(filterType) ==
    IF filterType = "folder" THEN {<<"P", "/", "*", "*">>, <<"*", "*">>}
    ELSE IF filterType = "name" THEN {<<"a">>, <<"*">>}
    ELSE IF filterType = "tag" THEN {<<"#", "s">>, <<"#", "s", "+", "#", "d">>}
    ELSE {<<"k">>, <<"x">>}

ListRules(filterType) ==
    [id : {0}, mode : {"allow", "deny"}, pattern : ListPatterns(filterType),
     isRegex : {FALSE}, enabled : BOOLEAN, methods : {None}, regexFlags : {None}]

\* the lists, each rule carrying its position as id
RuleLists(filterType) ==
    UNION {{[i \in DOMAIN l |-> [l[i] EXCEPT !.id = i]] :
               l \in [1..n -> ListRules(filterType)]} : n \in 0..MaxListRules}

InitMatchers ==
    /\ rulesFile = None
    /\ fileRules = None
    /\ loaded = FALSE
    /\ ev = IdleEval
    /\ mc = IdleCall
    /\ bulk = IdleBulk
    /\ calls = IdleCalls
    /\ rf = IdleRulesFileCall
    /\ mu = IdleMutations
    /\ req = IdleRequest
    /\ log = IdleLog

\* checkFolderFilter(filePath, rules)
CallFolderFilter ==
    /\ mc.pc = "idle"
    /\ \E rules \in RuleLists("folder"), filePath \in Paths :
          mc' = [IdleCall EXCEPT !.pc = "done", !.filterType = "folder",
                                 !.rules = rules, !.filePath = filePath,
                                 !.result = CheckFolderFilter(filePath, rules)]
    /\ UNCHANGED <<rulesFile, fileRules, loaded, ev, bulk, calls, rf, mu, req, log>>

\* checkDocumentNameFilter(filePath, rules)
CallDocumentNameFilter ==
    /\ mc.pc = "idle"
    /\ \E rules \in RuleLists("name"), filePath \in Paths :
          mc' = [IdleCall EXCEPT !.pc = "done", !.filterType = "name",
                                 !.rules = rules, !.filePath = filePath,
                                 !.result = CheckDocumentNameFilter(filePath, rules)]
    /\ UNCHANGED <<rulesFile, fileRules, loaded, ev, bulk, calls, rf, mu, req, log>>

\* checkTagFilter(filePath, rules, metadataCache, vault)
CallTagFilter ==
    /\ mc.pc = "idle"
    /\ \E rules \in RuleLists("tag"), file \in FileStates :
          mc' = [IdleCall EXCEPT !.pc = "done", !.filterType = "tag",
                                 !.rules = rules, !.file = file,
                                 !.result = CheckTagFilter(file, rules)]
    /\ UNCHANGED <<rulesFile, fileRules, loaded, ev, bulk, calls, rf, mu, req, log>>

\* checkKeywordFilter(filePath, rules, vault), up to its return (no such
\* file) or to its suspension in vault.cachedRead
CallKeywordFilter ==
    /\ mc.pc = "idle"
    /\ \E rules \in RuleLists("keyword"), exists \in BOOLEAN :
          mc' = [IdleCall EXCEPT !.pc = IF exists THEN "reading" ELSE "done",
                                 !.filterType = "keyword", !.rules = rules,
                                 !.file = [exists |-> exists, cache |-> None],
                                 !.read = IF exists THEN "pending" ELSE "none"]
    /\ UNCHANGED <<rulesFile, fileRules, loaded, ev, bulk, calls, rf, mu, req, log>>

\* checkKeywordFilter, from the return of vault.cachedRead
KeywordFilterRead ==
    /\ mc.pc = "reading"
    /\ \E read \in {None} \cup {Some(c) : c \in Contents} :
          mc' = [mc EXCEPT !.pc = "done",
                           !.read = IF IsSome(read) THEN "ok" ELSE "error",
                           !.content = IF IsSome(read) THEN Get(read) ELSE <<>>,
                           !.result = CheckKeywordFilterAfterRead(read, mc.rules)]
    /\ UNCHANGED <<rulesFile, fileRules, loaded, ev, bulk, calls, rf, mu, req, log>>

NextMatchers ==
    \/ CallFolderFilter
    \/ CallDocumentNameFilter
    \/ CallTagFilter
    \/ CallKeywordFilter
    \/ KeywordFilterRead

SpecMatchers == InitMatchers /\ [][NextMatchers]_vars

(***************************************************************************)
(* Properties.                                                             *)
(***************************************************************************)
Done == ev.pc = "done"
Decision == Get(ev.result)
Reads == {None} \cup {Some(c) : c \in Contents}

\* the answers of vault.cachedRead the returned call is consistent with
ObservedReads ==
    IF ev.read = "ok" THEN {Some(ev.content)}
    ELSE IF ev.read = "error" THEN {None}
    ELSE Reads

\* the tag set of a file: inline and front-matter tags, lower-cased, with #
FileTagSet(file) ==
    IF ~file.exists \/ ~IsSome(file.cache) THEN {}
    ELSE LET cache == Get(file.cache)
         IN  {ToLowerCase(cache.tags[i]) : i \in DOMAIN cache.tags}
             \cup {ToLowerCase(IF Head(cache.frontmatter[i]) = "#"
                               THEN cache.frontmatter[i]
                               ELSE <<"#">> \o cache.frontmatter[i]) :
                      i \in DOMAIN cache.frontmatter}

MetadataAvailable == ev.file.exists /\ IsSome(ev.file.cache)

RemoveAt(s, i) == SubSeq(s, 1, i - 1) \o SubSeq(s, i + 1, Len(s))

\* the rule has a method scope and the scope does not list the method
OutOfScope(rule, method) ==
    /\ IsSome(rule.methods)
    /\ Len(Get(rule.methods)) > 0
    /\ \A i \in DOMAIN Get(rule.methods) :
           Get(rule.methods)[i] /= ToUpperCase(method)

\* C1: a rule whose method scope does not list the request's method behaves
\* as if absent: the verdict equals the verdict with that rule removed from
\* the rule set (stated where metadata and content are readable, so that the
\* fail-closed answers of the tag and keyword stages play no part).
C1_ScopedOutRuleIsAbsent ==
    (Done /\ IsSome(ev.rules) /\ IsSome(ev.method)
          /\ (ev.file.exists => IsSome(ev.file.cache)) /\ ev.read /= "error")
    => \A t \in FilterTypes : \A i \in DOMAIN Get(ev.rules)[t] :
           OutOfScope(Get(ev.rules)[t][i], Get(ev.method))
           => \A read \in ObservedReads \ {None} :
                  EvaluateFile(Some([Get(ev.rules) EXCEPT ![t] = RemoveAt(@, i)]),
                               ev.filePath, ev.settings, ev.method, ev.file,
                               read).allowed
                  = Decision.allowed

\* C2: the configured global deny tag in the file's tag set means deny,
\* whatever the rules, the method, the default policy and the allow tag.
C2_GlobalDenyTagDenies ==
    (Done /\ MetadataAvailable /\ Len(ev.settings.globalDenyTag) > 0
          /\ ev.settings.globalDenyTag \in FileTagSet(ev.file))
    => (~Decision.allowed /\ Decision.reason.text = "Global deny tag present")

\* a returned call on a file carrying both global tags, under a matching
\* folder allow rule and default policy allow
C2_Witness ==
    /\ Done /\ MetadataAvailable
    /\ ev.settings.globalDenyTag = tagDeny
    /\ ev.settings.globalAllowTag = tagAllow
    /\ {tagDeny, tagAllow} \subseteq FileTagSet(ev.file)
    /\ ev.settings.defaultPolicy = "allow"
    /\ IsSome(ev.rules)
    /\ Len(Get(ev.rules).folder) > 0
    /\ Get(ev.rules).folder[1].mode = "allow"
    /\ ~IsSome(Get(ev.rules).folder[1].methods)
    /\ Minimatch(ev.filePath, Get(ev.rules).folder[1].pattern)
    /\ ~Decision.allowed

\* C3: the global allow tag in the tag set, and the deny tag not in it,
\* means allow, whatever folder, name, tag or keyword deny rule matches.
C3_GlobalAllowTagAllows ==
    (Done /\ MetadataAvailable /\ Len(ev.settings.globalAllowTag) > 0
          /\ ev.settings.globalAllowTag \in FileTagSet(ev.file)
          /\ ev.settings.globalDenyTag \notin FileTagSet(ev.file))
    => (Decision.allowed /\ Decision.reason.text = "Global allow tag present")

\* a returned call on a file with the allow tag only, under a matching
\* folder deny rule, a matching tag deny rule and default policy deny
C3_Witness ==
    /\ Done /\ MetadataAvailable
    /\ ev.settings.globalAllowTag = tagAllow
    /\ tagAllow \in FileTagSet(ev.file)
    /\ tagDeny \notin FileTagSet(ev.file)
    /\ ev.settings.defaultPolicy = "deny"
    /\ IsSome(ev.rules)
    /\ Len(Get(ev.rules).folder) > 0
    /\ Get(ev.rules).folder[1].mode = "deny"
    /\ ~IsSome(Get(ev.rules).folder[1].methods)
    /\ Minimatch(ev.filePath, Get(ev.rules).folder[1].pattern)
    /\ Len(Get(ev.rules).tag) > 0
    /\ Get(ev.rules).tag[1].mode = "deny"
    /\ Get(ev.rules).tag[1].pattern \in FileTagSet(ev.file)
    /\ Decision.allowed

(***************************************************************************)
(* The stages of the chain, as seen from a returned call.                  *)
(***************************************************************************)
\* the rules of one kind the call ran with
RulesAt(filterType) ==
    IF IsSome(ev.rules) THEN Get(ev.rules)[filterType] ELSE <<>>

\* the global tag stage has no opinion: no such file, or no configured
\* global tag in the file's tags, or nothing configured and no metadata
GlobalNoOpinion ==
    \/ ~ev.file.exists
    \/ /\ ~IsSome(ev.file.cache)
       /\ Len(ev.settings.globalAllowTag) = 0
       /\ Len(ev.settings.globalDenyTag) = 0
    \/ /\ IsSome(ev.file.cache)
       /\ \A tag \in {ev.settings.globalAllowTag, ev.settings.globalDenyTag} :
              Len(tag) = 0 \/ ToLowerCase(tag) \notin FileTagSet(ev.file)

\* what the matcher of one kind answers for the call; read is the answer of
\* vault.cachedRead.  A kind without rules is not consulted.
StageResult(filterType, read) ==
    IF Len(RulesAt(filterType)) = 0 THEN None
    ELSE IF filterType = "folder"
    THEN CheckFolderFilter(ev.filePath, RulesAt(filterType))
    ELSE IF filterType = "name"
    THEN CheckDocumentNameFilter(ev.filePath, RulesAt(filterType))
    ELSE IF filterType = "tag"
    THEN CheckTagFilter(ev.file, RulesAt(filterType))
    ELSE IF ~ev.file.exists THEN None
    ELSE CheckKeywordFilterAfterRead(read, RulesAt(filterType))

\* the stage yields a decision applicable to the request's method
StageApplies(filterType, read) == Applies(StageResult(filterType, read), ev.method)

StageOrder == <<"folder", "name", "tag", "keyword">>

UnavailableReasons ==
    {"Tag cache unavailable (global tags configured)",
     "Tag cache unavailable (tag rules configured)"}

GlobalTagConfigured ==
    Len(ev.settings.globalAllowTag) > 0 \/ Len(ev.settings.globalDenyTag) > 0

\* C4 (as stated): a path that exists, with metadata unavailable and a global
\* tag name or an enabled custom tag rule configured, is denied with a reason
\* mentioning unavailability whatever the other rules are.
C4_UnavailableAlwaysDenies ==
    (Done /\ ev.file.exists /\ ~IsSome(ev.file.cache)
          /\ (GlobalTagConfigured \/ Len(RulesAt("tag")) > 0))
    => (~Decision.allowed /\ Decision.reason.text \in UnavailableReasons)

\* C4 (amended): with a global tag name configured the deny is unconditional;
\* with custom tag rules only, it holds unless the folder stage or the name
\* stage yields a decision applicable to the method, which is returned first.
C4_UnavailableDeniesAtTagStage ==
    (Done /\ ev.file.exists /\ ~IsSome(ev.file.cache)
          /\ (GlobalTagConfigured \/ Len(RulesAt("tag")) > 0)
          /\ (GlobalTagConfigured
              \/ (~StageApplies("folder", None) /\ ~StageApplies("name", None))))
    => (~Decision.allowed /\ Decision.reason.text \in UnavailableReasons
        /\ ~IsSome(Decision.matchedRule))

\* a PUT on an existing file without metadata, no global tag configured,
\* default policy allow, a matching folder rule and a tag rule both scoped
\* to GET: denied for the unavailable tag cache
C4_Witness ==
    /\ Done /\ ev.file.exists /\ ~IsSome(ev.file.cache)
    /\ ~GlobalTagConfigured
    /\ ev.settings.defaultPolicy = "allow"
    /\ ev.method = Some(sPUT)
    /\ Len(RulesAt("folder")) > 0
    /\ Minimatch(ev.filePath, RulesAt("folder")[1].pattern)
    /\ OutOfScope(RulesAt("folder")[1], sPUT)
    /\ Len(RulesAt("tag")) > 0
    /\ RulesAt("tag")[1].mode = "allow"
    /\ OutOfScope(RulesAt("tag")[1], sPUT)
    /\ ~Decision.allowed
    /\ Decision.reason.text = "Tag cache unavailable (tag rules configured)"

\* C5: when the global tag stage has no opinion, the decision returned is
\* that of the earliest stage, in the order folder, name, tag, keyword, whose
\* decision applies to the request's method.
C5_EarliestApplicableStage ==
    (Done /\ GlobalNoOpinion)
    => \A read \in ObservedReads : \A k \in DOMAIN StageOrder :
           (/\ StageApplies(StageOrder[k], read)
            /\ \A j \in 1..(k - 1) : ~StageApplies(StageOrder[j], read))
           => Decision = Get(StageResult(StageOrder[k], read))

\* a folder deny returned although a name allow rule matches, the content
\* never read
C5_Witness ==
    /\ Done /\ GlobalNoOpinion
    /\ Len(RulesAt("folder")) > 0 /\ Len(RulesAt("name")) > 0
    /\ RulesAt("folder")[1].mode = "deny"
    /\ RulesAt("name")[1].mode = "allow"
    /\ StageApplies("folder", None) /\ StageApplies("name", None)
    /\ ~Decision.allowed
    /\ Decision.filterType = Some("folder")
    /\ ev.reads = 0

(***************************************************************************)
(* One matcher called directly (SpecMatchers).                             *)
(***************************************************************************)
MatcherDone == mc.pc = "done"

\* the pattern of a rule matches the candidate of the call
RuleMatches(rule) ==
    IF mc.filterType = "folder" THEN Minimatch(mc.filePath, rule.pattern)
    ELSE IF mc.filterType = "name"
    THEN Minimatch(Basename(mc.filePath), rule.pattern)
    ELSE IF mc.filterType = "tag"
    THEN /\ mc.file.exists /\ IsSome(mc.file.cache)
         /\ LET parts == SplitOn(rule.pattern, "+")
            IN  \A i \in DOMAIN parts :
                    ToLowerCase(Trim(parts[i])) \in FileTagSet(mc.file)
    ELSE mc.read = "ok" /\ Includes(mc.content, rule.pattern)

\* positions of the enabled rules whose pattern matches
EnabledMatches == {i \in DOMAIN mc.rules : mc.rules[i].enabled /\ RuleMatches(mc.rules[i])}

FirstEnabledMatch == CHOOSE i \in EnabledMatches : \A j \in EnabledMatches : i <= j

\* the first enabled matching rule decides, and there is a decision iff
\* there is such a rule
FirstMatchDecides ==
    /\ IsSome(mc.result) <=> EnabledMatches /= {}
    /\ IsSome(mc.result) =>
           /\ Get(mc.result).matchedRule = Some(mc.rules[FirstEnabledMatch])
           /\ Get(mc.result).allowed = (mc.rules[FirstEnabledMatch].mode = "allow")

\* the tag matcher without metadata, the keyword matcher after a failed read
FailsClosed ==
    \/ mc.filterType = "tag" /\ mc.file.exists /\ ~IsSome(mc.file.cache)
    \/ mc.filterType = "keyword" /\ mc.read = "error"

\* C6 (as stated): in every matcher the first enabled rule whose pattern
\* matches determines the verdict, and the matcher returns no decision iff
\* no enabled rule matches.
C6_FirstMatchOrNoDecision == MatcherDone => FirstMatchDecides

\* C6 (amended): the same, except that the tag matcher on a file whose
\* metadata is unavailable and the keyword matcher after a failed read
\* return a deny that carries no matched rule, whatever the rules are.
C6_FirstMatchOrFailClosed ==
    MatcherDone =>
        IF FailsClosed
        THEN /\ IsSome(mc.result)
             /\ ~Get(mc.result).allowed
             /\ ~IsSome(Get(mc.result).matchedRule)
        ELSE FirstMatchDecides

\* a list of two enabled matching rules of opposite modes, deny first: the
\* matcher answers deny with the first rule
C6_Witness ==
    /\ MatcherDone /\ ~FailsClosed
    /\ Len(mc.rules) = 2
    /\ EnabledMatches = {1, 2}
    /\ mc.rules[1].mode = "deny" /\ mc.rules[2].mode = "allow"
    /\ IsSome(mc.result)
    /\ ~Get(mc.result).allowed
    /\ Get(mc.result).matchedRule = Some(mc.rules[1])

(***************************************************************************)
(* Disabled rules, default policy, missing files, failed reads.            *)
(***************************************************************************)
\* the rule set reloadRules keeps for a rules file
GroupedOf(file) ==
    IF IsSome(LoadRulesFile(file)) THEN Some(Get(LoadRulesFile(file)).grouped)
    ELSE None

RECURSIVE DropDisabled(_)
DropDisabled(lines) ==
    IF Len(lines) = 0 THEN <<>>
    ELSE (IF StartsWith(Trim(Head(lines)), DISABLED_PREFIX) THEN <<>>
          ELSE <<Head(lines)>>) \o DropDisabled(Tail(lines))

\* the rules file with every #!disabled line deleted
WithoutDisabled(content) == JoinLines(DropDisabled(SplitOn(content, "\n")))

\* a decision without the line-derived id of its matched rule
EraseId(d) ==
    [d EXCEPT !.matchedRule = IF IsSome(@) THEN Some([Get(@) EXCEPT !.id = 0])
                              ELSE None]

\* C7: the decision is the one evaluateFile returns with every #!disabled
\* line deleted from the rules file (matched rules compared without their
\* line numbers), and a matched rule is never a disabled one.
C7_DisabledRulesNeverCount ==
    (Done /\ IsSome(rulesFile) /\ ev.rules = GroupedOf(rulesFile))
    => /\ \A read \in ObservedReads :
              EraseId(EvaluateFile(GroupedOf(Some(WithoutDisabled(Get(rulesFile)))),
                                   ev.filePath, ev.settings, ev.method, ev.file,
                                   read))
              = EraseId(Decision)
       /\ IsSome(Decision.matchedRule) => Get(Decision.matchedRule).enabled

\* a file whose first line is a disabled folder allow rule matching the
\* path and whose second line is an enabled name deny rule: the call is
\* denied by the name rule
C7_Witness ==
    /\ Done /\ IsSome(rulesFile) /\ ev.rules = GroupedOf(rulesFile)
    /\ LET entries == Get(LoadRulesFile(rulesFile)).entries
       IN  /\ Len(entries) = 2
           /\ ~entries[1].rule.enabled
           /\ entries[1].filterType = "folder"
           /\ entries[1].rule.mode = "allow"
           /\ Minimatch(ev.filePath, entries[1].rule.pattern)
           /\ entries[2].rule.enabled
    /\ GlobalNoOpinion
    /\ ~Decision.allowed
    /\ Decision.filterType = Some("document-name")

\* the decision of the default policy for the call's settings
DefaultPolicyDecision ==
    [allowed |-> ev.settings.defaultPolicy = "allow",
     reason |-> [text |-> "Default policy", mode |-> ev.settings.defaultPolicy,
                 arg |-> <<>>],
     matchedRule |-> None,
     filterType |-> None]

\* C8: the default-policy decision is returned iff neither the global tag
\* stage nor any of the four rule stages yields a decision applicable to the
\* method; so it is whenever no rule set is loaded and no global tag applies.
C8_DefaultIffNoStageApplies ==
    Done =>
        /\ \A read \in ObservedReads :
               (Decision = DefaultPolicyDecision)
               <=> (GlobalNoOpinion
                    /\ \A t \in FilterTypes : ~StageApplies(t, read))
        /\ (~IsSome(ev.rules) /\ GlobalNoOpinion) => Decision = DefaultPolicyDecision

\* no rule set loaded, global tags configured but not carried by the file,
\* default policy allow: allowed by default
C8_Witness ==
    /\ Done /\ ~IsSome(ev.rules)
    /\ ev.file.exists /\ IsSome(ev.file.cache)
    /\ GlobalTagConfigured /\ GlobalNoOpinion
    /\ ev.settings.defaultPolicy = "allow"
    /\ Decision.allowed
    /\ Decision.reason.text = "Default policy"

\* rule lists to put in the place of the tag or keyword rules of the call
OtherRules(filterType) ==
    {<<>>} \cup {<<r>> : r \in {x \in RulesOf(filterType) : x.enabled}}

KeywordStageReached ==
    /\ ev.file.exists
    /\ GlobalNoOpinion
    /\ Len(RulesAt("keyword")) > 0
    /\ \A t \in {"folder", "name", "tag"} : ~StageApplies(t, None)

\* C10: when the keyword stage is reached for an existing file the content
\* is read, and a failed read means deny for a read error, without matched
\* rule, whatever the method, the default policy and the scopes of the
\* keyword rules; for a missing file the keyword stage has no opinion.
C10_ReadFailureDenies ==
    Done =>
        /\ KeywordStageReached <=> ev.read \in {"ok", "error"}
        /\ ev.read = "error" =>
               /\ ~Decision.allowed
               /\ Decision.reason.text = "File read error"
               /\ ~IsSome(Decision.matchedRule)
        /\ ~ev.file.exists =>
               (ev.read = "none" /\ Decision.filterType /= Some("keyword"))

\* a PUT under default policy allow, every keyword rule scoped to GET, the
\* read failing: denied for the read error
C10_Witness ==
    /\ Done /\ ev.read = "error"
    /\ ev.settings.defaultPolicy = "allow"
    /\ ev.method = Some(sPUT)
    /\ Len(RulesAt("keyword")) > 0
    /\ \A i \in DOMAIN RulesAt("keyword") : OutOfScope(RulesAt("keyword")[i], sPUT)
    /\ ~Decision.allowed
    /\ Decision.reason.text = "File read error"

(***************************************************************************)
(* filter-engine.ts: filterPaths and filterSearchResults.  Promise.all     *)
(* over one callback per input item; each callback runs evaluateFile with  *)
(* method "GET" and suspends only in vault.cachedRead, so the callbacks    *)
(* return in any order.  order is the order in which they returned.        *)
(***************************************************************************)
MaxPaths == 3
MaxResults == 2

BulkRule(filterType) ==
    [id |-> 0, mode |-> "deny", pattern |-> PatternOf(filterType),
     isRegex |-> FALSE, enabled |-> TRUE, methods |-> None, regexFlags |-> None]

\* access-rules.conf: missing, or a folder deny, a keyword deny, or both
BulkFiles ==
    {None,
     Some(SerializeRule("folder", BulkRule("folder"))),
     Some(SerializeRule("keyword", BulkRule("keyword"))),
     Some(JoinLines(<<SerializeRule("folder", BulkRule("folder")),
                      SerializeRule("keyword", BulkRule("keyword"))>>))}

BulkSettings == {s \in SettingsSet : Len(s.globalDenyTag) = 0}

\* what the vault answers for each path during the call
BulkVaults ==
    [Paths -> {[exists |-> FALSE, cache |-> None],
               [exists |-> TRUE,
                cache |-> Some([tags |-> <<>>, frontmatter |-> <<>>])]}]

PathLists == UNION {[1..n -> Paths] : n \in 0..MaxPaths}

\* search results: records with an optional filename and an optional path
SearchItems ==
    [filename : {None, Some(<<>>), Some(pathPa), Some(pathSa)},
     path : {None, Some(pathPa)}]

SearchLists == UNION {[1..n -> SearchItems] : n \in 0..MaxResults}

\* item.filename ?? item.path
DerivedPath(item) == IF IsSome(item.filename) THEN item.filename ELSE item.path

\* one callback of paths.map / results.map, up to its return or to its
\* suspension in vault.cachedRead; value is what the callback resolves to
BulkItem(rules, settings, vault, item, path) ==
    IF ~IsSome(path) \/ Len(Get(path)) = 0
    THEN [pc |-> "done", path |-> path, read |-> "none", content |-> <<>>,
          decision |-> None, value |-> Some(item)]
    ELSE LET d == EvaluateSync(rules, Get(path), settings, Some(sGET),
                               vault[Get(path)])
         IN  [pc |-> IF IsSome(d) THEN "done" ELSE "reading",
              path |-> path,
              read |-> IF IsSome(d) THEN "none" ELSE "pending",
              content |-> <<>>,
              decision |-> d,
              value |-> IF IsSome(d) /\ Get(d).allowed THEN Some(item) ELSE None]

\* the callbacks that returned without suspending, in input order
ReturnedAtCall(items) ==
    LET Returned(i) == items[i].pc = "done"
    IN  SelectSeq([i \in 1..Len(items) |-> i], Returned)

\* the kept values listed in the order in which the callbacks returned
BulkOutput_CompletionOrder(items, order) ==
    LET Kept(i) == IsSome(items[i].value)
    IN  [j \in DOMAIN SelectSeq(order, Kept) |->
            Get(items[SelectSeq(order, Kept)[j]].value)]

\* results.filter((p) => p !== null) on the array Promise.all resolves to
BulkOutput(items, order) ==
    LET Kept(it) == IsSome(it.value)
    IN  [j \in DOMAIN SelectSeq(items, Kept) |-> Get(SelectSeq(items, Kept)[j].value)]

InitBulk ==
    /\ rulesFile \in BulkFiles
    /\ fileRules = (IF IsSome(LoadRulesFile(rulesFile))
                    THEN Some(Get(LoadRulesFile(rulesFile)).grouped) ELSE None)
    /\ loaded = TRUE
    /\ ev = IdleEval
    /\ mc = IdleCall
    /\ bulk = IdleBulk
    /\ calls = IdleCalls
    /\ rf = IdleRulesFileCall
    /\ mu = IdleMutations
    /\ req = IdleRequest
    /\ log = IdleLog

\* filterPaths(paths, settings), to the await of Promise.all
FilterPathsCall ==
    /\ bulk.pc = "idle"
    /\ \E paths \in PathLists, settings \in BulkSettings, vault \in BulkVaults :
          LET items == [i \in DOMAIN paths |->
                           BulkItem(fileRules, settings, vault, paths[i],
                                    Some(paths[i]))]
          IN  bulk' = [pc |-> "waiting", op |-> "filterPaths", input |-> paths,
                       settings |-> settings, rules |-> fileRules,
                       vault |-> vault, items |-> items,
                       order |-> ReturnedAtCall(items), output |-> <<>>]
    /\ UNCHANGED <<rulesFile, fileRules, loaded, ev, mc, calls, rf, mu, req, log>>

\* filterSearchResults(results, settings), to the await of Promise.all
FilterSearchResultsCall ==
    /\ bulk.pc = "idle"
    /\ \E results \in SearchLists, settings \in BulkSettings, vault \in BulkVaults :
          LET items == [i \in DOMAIN results |->
                           BulkItem(fileRules, settings, vault, results[i],
                                    DerivedPath(results[i]))]
          IN  bulk' = [pc |-> "waiting", op |-> "filterSearchResults",
                       input |-> results, settings |-> settings,
                       rules |-> fileRules, vault |-> vault, items |-> items,
                       order |-> ReturnedAtCall(items), output |-> <<>>]
    /\ UNCHANGED <<rulesFile, fileRules, loaded, ev, mc, calls, rf, mu, req, log>>

\* the callback of item i after its read returned (read = None: it threw)
BulkItemResume(i, read) ==
    LET d == EvaluateResume(Get(bulk.rules).keyword, bulk.settings, Some(sGET), read)
    IN  [bulk.items[i] EXCEPT
            !.pc = "done",
            !.read = IF IsSome(read) THEN "ok" ELSE "error",
            !.content = IF IsSome(read) THEN Get(read) ELSE <<>>,
            !.decision = Some(d),
            !.value = IF d.allowed THEN Some(bulk.input[i]) ELSE None]

\* vault.cachedRead resolves for one suspended callback
BulkReadResolve ==
    /\ bulk.pc = "waiting"
    /\ \E i \in DOMAIN bulk.items, content \in Contents :
          /\ bulk.items[i].pc = "reading"
          /\ bulk' = [bulk EXCEPT !.items[i] = BulkItemResume(i, Some(content)),
                                  !.order = Append(@, i)]
    /\ UNCHANGED <<rulesFile, fileRules, loaded, ev, mc, calls, rf, mu, req, log>>

\* vault.cachedRead rejects for one suspended callback
BulkReadReject ==
    /\ bulk.pc = "waiting"
    /\ \E i \in DOMAIN bulk.items :
          /\ bulk.items[i].pc = "reading"
          /\ bulk' = [bulk EXCEPT !.items[i] = BulkItemResume(i, None),
                                  !.order = Append(@, i)]
    /\ UNCHANGED <<rulesFile, fileRules, loaded, ev, mc, calls, rf, mu, req, log>>

\* Promise.all resolves once every callback returned; the call returns
BulkReturn ==
    /\ bulk.pc = "waiting"
    /\ \A i \in DOMAIN bulk.items : bulk.items[i].pc = "done"
    /\ bulk' = [bulk EXCEPT !.pc = "done",
                            !.output = BulkOutput(bulk.items, bulk.order)]
    /\ UNCHANGED <<rulesFile, fileRules, loaded, ev, mc, calls, rf, mu, req, log>>

NextBulk ==
    \/ FilterPathsCall
    \/ FilterSearchResultsCall
    \/ BulkReadResolve
    \/ BulkReadReject
    \/ BulkReturn

SpecBulk == InitBulk /\ [][NextBulk]_vars

BulkDone == bulk.pc = "done"

\* what vault.cachedRead answered to the callback of item i
BulkReadOf(i) ==
    IF bulk.items[i].read = "ok" THEN {Some(bulk.items[i].content)}
    ELSE IF bulk.items[i].read = "error" THEN {None}
    ELSE Reads

\* evaluateFile(path, settings, "GET") is allowed for item i of the call
AllowedForGet(i, path) ==
    \A read \in BulkReadOf(i) :
        EvaluateFile(bulk.rules, path, bulk.settings, Some(sGET),
                     bulk.vault[path], read).allowed

\* the j-th smallest element of a set of positions
NthOf(K, j) == CHOOSE i \in K : Cardinality({k \in K : k <= i}) = j

\* s is the subsequence of input at the positions K
IsSubsequenceAt(s, input, K) ==
    /\ Len(s) = Cardinality(K)
    /\ \A j \in 1..Len(s) : s[j] = input[NthOf(K, j)]

\* C11: filterPaths returns the subsequence of its input made of the paths
\* for which evaluateFile(p, GET) is allowed: denied paths dropped, allowed
\* paths and duplicates kept, input order preserved whatever the order in
\* which the evaluations completed.
C11_FilterPathsKeepsAllowedInOrder ==
    (BulkDone /\ bulk.op = "filterPaths")
    => IsSubsequenceAt(bulk.output, bulk.input,
                       {i \in DOMAIN bulk.input : AllowedForGet(i, bulk.input[i])})

\* three paths, the second denied by the folder rule, the first and third
\* the same allowed path read in reverse order: both occurrences returned
C11_Witness ==
    /\ BulkDone /\ bulk.op = "filterPaths"
    /\ bulk.input = <<pathSa, pathPa, pathSa>>
    /\ bulk.order = <<2, 3, 1>>
    /\ bulk.output = <<pathSa, pathSa>>

\* the record carries no path: both fields missing or empty
NoPath(item) ==
    \A f \in {item.filename, item.path} : ~IsSome(f) \/ Len(Get(f)) = 0

\* the path p, a field of input record i, is denied for GET; for the field
\* the call evaluated, with the read the call observed
FieldDenied(i, p) ==
    /\ Len(p) > 0
    /\ \A read \in (IF Some(p) = DerivedPath(bulk.input[i]) THEN BulkReadOf(i)
                    ELSE Reads) :
           ~EvaluateFile(bulk.rules, p, bulk.settings, Some(sGET),
                         bulk.vault[p], read).allowed

\* C12: filterSearchResults returns, in input order, records none of whose
\* fields filename and path names a path denied for GET, and among them
\* every record that carries no path in either field.
C12_NoDeniedRecordReturned ==
    (BulkDone /\ bulk.op = "filterSearchResults")
    => \E K \in SUBSET DOMAIN bulk.input :
           /\ IsSubsequenceAt(bulk.output, bulk.input, K)
           /\ \A i \in K : \A f \in {bulk.input[i].filename, bulk.input[i].path} :
                  IsSome(f) => ~FieldDenied(i, Get(f))
           /\ \A i \in DOMAIN bulk.input : NoPath(bulk.input[i]) => i \in K

(***************************************************************************)
(* evaluateFile calls in flight together, interleaved with edits of        *)
(* access-rules.conf and with reloadRules.  A call reads this.fileRules    *)
(* only before its suspension in vault.cachedRead: the keyword rules it    *)
(* resumes with are the array it passed to checkKeywordFilter.             *)
(***************************************************************************)
ConcRule(mode, filterType, pattern) ==
    [id |-> 0, mode |-> mode, pattern |-> pattern, isRegex |-> FALSE,
     enabled |-> TRUE, methods |-> None, regexFlags |-> None]

\* "allow keyword k"
ConcFileA == SerializeRule("keyword", ConcRule("allow", "keyword", <<"k">>))

\* "deny folder P/**", "deny keyword x"
ConcFileB ==
    JoinLines(<<SerializeRule("folder", ConcRule("deny", "folder", PatternOf("folder"))),
                SerializeRule("keyword", ConcRule("deny", "keyword", <<"x">>))>>)

\* access-rules.conf: missing or unreadable, or one of two files
ConcFiles == {None, Some(ConcFileA), Some(ConcFileB)}

ConcSettings == BulkSettings

ConcFileStates ==
    {[exists |-> FALSE, cache |-> None],
     [exists |-> TRUE, cache |-> Some([tags |-> <<>>, frontmatter |-> <<>>])]}

InitConcurrent ==
    /\ rulesFile \in ConcFiles
    /\ fileRules = None
    /\ loaded = FALSE
    /\ ev = IdleEval
    /\ mc = IdleCall
    /\ bulk = IdleBulk
    /\ calls = IdleCalls
    /\ rf = IdleRulesFileCall
    /\ mu = IdleMutations
    /\ req = IdleRequest
    /\ log = IdleLog

\* access-rules.conf is edited, replaced or removed on disk
WriteRulesFile ==
    /\ \E file \in ConcFiles : file /= rulesFile /\ rulesFile' = file
    /\ UNCHANGED <<fileRules, loaded, ev, mc, bulk, calls, rf, mu, req, log>>

\* call c of evaluateFile(filePath, settings, "GET"), up to its return or
\* to its suspension in vault.cachedRead
CallEvaluateFile(c) ==
    /\ loaded
    /\ calls[c].pc = "idle"
    /\ \E filePath \in Paths, settings \in ConcSettings, file \in ConcFileStates :
          LET d == EvaluateSync(fileRules, filePath, settings, Some(sGET), file)
          IN  calls' = [calls EXCEPT ![c] =
                  [pc |-> IF IsSome(d) THEN "done" ELSE "reading",
                   filePath |-> filePath, method |-> Some(sGET),
                   settings |-> settings, file |-> file,
                   rules |-> fileRules,
                   read |-> IF IsSome(d) THEN "none" ELSE "pending",
                   content |-> <<>>,
                   reads |-> IF IsSome(d) THEN 0 ELSE 1,
                   result |-> d]]
    /\ UNCHANGED <<rulesFile, fileRules, loaded, ev, mc, bulk, rf, mu, req, log>>

\* the read of call c settling with the rule set installed at that moment
\* used for the keyword stage
CallReadReturn_CurrentRules(c) ==
    /\ calls[c].pc = "reading"
    /\ \E read \in Reads :
          calls' = [calls EXCEPT ![c] =
              [@ EXCEPT !.pc = "done",
                        !.read = IF IsSome(read) THEN "ok" ELSE "error",
                        !.content = IF IsSome(read) THEN Get(read) ELSE <<>>,
                        !.result = Some(EvaluateResume(
                                       IF IsSome(fileRules)
                                       THEN Get(fileRules).keyword ELSE <<>>,
                                       calls[c].settings, calls[c].method, read))]]
    /\ UNCHANGED <<rulesFile, fileRules, loaded, ev, mc, bulk, rf, mu, req, log>>

\* the read of call c settling only when no other call is suspended
CallReadReturn_Serial(c) ==
    /\ calls[c].pc = "reading"
    /\ \A d \in DOMAIN calls : d /= c => calls[d].pc /= "reading"
    /\ \E read \in Reads :
          calls' = [calls EXCEPT ![c] =
              [@ EXCEPT !.pc = "done",
                        !.read = IF IsSome(read) THEN "ok" ELSE "error",
                        !.content = IF IsSome(read) THEN Get(read) ELSE <<>>,
                        !.result = Some(EvaluateResume(Get(calls[c].rules).keyword,
                                            calls[c].settings, calls[c].method, read))]]
    /\ UNCHANGED <<rulesFile, fileRules, loaded, ev, mc, bulk, rf, mu, req, log>>

\* vault.cachedRead of call c settles (resolves with the content or
\* rejects) and the call runs to its return
CallReadReturn(c) ==
    /\ calls[c].pc = "reading"
    /\ \E read \in Reads :
          calls' = [calls EXCEPT ![c] =
              [@ EXCEPT !.pc = "done",
                        !.read = IF IsSome(read) THEN "ok" ELSE "error",
                        !.content = IF IsSome(read) THEN Get(read) ELSE <<>>,
                        !.result = Some(EvaluateResume(Get(calls[c].rules).keyword,
                                            calls[c].settings, calls[c].method, read))]]
    /\ UNCHANGED <<rulesFile, fileRules, loaded, ev, mc, bulk, rf, mu, req, log>>

NextConcurrent ==
    \/ WriteRulesFile
    \/ ReloadRules
    \/ \E c \in DOMAIN calls : CallEvaluateFile(c)
    \/ \E c \in DOMAIN calls : CallReadReturn(c)

SpecConcurrent == InitConcurrent /\ [][NextConcurrent]_vars

\* C13: a reload installs the complete rule set of the file or, when
\* loading the file fails, leaves the installed rule set as it was.
C13_ReloadAllOrNothing ==
    [][fileRules' /= fileRules
       => (IsSome(LoadRulesFile(rulesFile))
           /\ fileRules' = Some(Get(LoadRulesFile(rulesFile)).grouped))]_vars

\* the rule sets that can be installed: none, or the one of a file
InstallableRules == {GroupedOf(file) : file \in ConcFiles}

\* what vault.cachedRead answered to call c
CallReadOf(c) ==
    IF calls[c].read = "ok" THEN {Some(calls[c].content)}
    ELSE IF calls[c].read = "error" THEN {None}
    ELSE Reads

\* the decision of call c is the one evaluateFile gives under the rule set S
DecisionUnder(c, S) ==
    \A read \in CallReadOf(c) :
        Get(calls[c].result)
        = EvaluateFile(S, calls[c].filePath, calls[c].settings, calls[c].method,
                       calls[c].file, read)

\* C14: whatever reloads happen while a call is in flight, its decision is
\* the decision under one rule set for all stages, the one installed when
\* the call started.
C14_OneRuleSetPerEvaluation ==
    \A c \in DOMAIN calls :
        calls[c].pc = "done"
        => /\ calls[c].rules \in InstallableRules
           /\ DecisionUnder(c, calls[c].rules)
           /\ \E S \in InstallableRules : DecisionUnder(c, S)

\* a call started under "allow keyword k" and suspended in its read, the
\* file replaced and reloaded meanwhile: allowed by the keyword rule it
\* started with, not denied by the folder rule now installed
C14_Witness ==
    \E c \in DOMAIN calls :
        /\ calls[c].pc = "done"
        /\ calls[c].rules = GroupedOf(Some(ConcFileA))
        /\ fileRules = GroupedOf(Some(ConcFileB))
        /\ calls[c].filePath = pathPa
        /\ calls[c].read = "ok"
        /\ Get(calls[c].result).allowed
        /\ Get(calls[c].result).filterType = Some("keyword")

(***************************************************************************)
(* A content provider that never returns for one path.  The reads of the   *)
(* other paths do settle: each evaluateFile call awaits its own            *)
(* vault.cachedRead promise, and the event loop runs every settled         *)
(* promise's continuation.                                                 *)
(***************************************************************************)
StalledPath == pathPa

InitStall ==
    /\ rulesFile = Some(ConcFileA)
    /\ fileRules = GroupedOf(rulesFile)
    /\ loaded = TRUE
    /\ ev = IdleEval
    /\ mc = IdleCall
    /\ bulk = IdleBulk
    /\ calls = IdleCalls
    /\ rf = IdleRulesFileCall
    /\ mu = IdleMutations
    /\ req = IdleRequest
    /\ log = IdleLog

\* vault.cachedRead of call c settles, unless it reads the stalled path
StallReadReturn(c) ==
    /\ calls[c].filePath /= StalledPath
    /\ CallReadReturn(c)

NextStall ==
    \/ \E c \in DOMAIN calls : CallEvaluateFile(c)
    \/ \E c \in DOMAIN calls : StallReadReturn(c)

SpecStall ==
    InitStall /\ [][NextStall]_vars
    /\ \A c \in 1..MaxCalls : WF_vars(StallReadReturn(c))

\* C15: while the read of one path never returns, every evaluateFile call
\* in flight for another path still completes with its decision.
C15_OtherPathsComplete ==
    \A c \in 1..MaxCalls :
        (calls[c].pc = "reading" /\ calls[c].filePath /= StalledPath)
        ~> (calls[c].pc = "done" /\ IsSome(calls[c].result))

\* one call stalled in the read of the stalled path, another call for
\* another path returned with the decision of the keyword stage
C15_Witness ==
    \E c, d \in DOMAIN calls :
        /\ calls[c].pc = "reading" /\ calls[c].filePath = StalledPath
        /\ calls[d].pc = "done" /\ calls[d].filePath /= StalledPath
        /\ calls[d].read = "ok"
        /\ IsSome(calls[d].result)

(***************************************************************************)
(* The rules file on its own: serializeRule followed by parseRulesFile,    *)
(* and parseRulesFile on files with blank, comment and malformed lines.    *)
(***************************************************************************)
MaxFileLines == 3

\* the rules handed to serializeRule; each one is a rule parseRulesFile
\* yields for some line (a quoted pattern may hold a space or a tab)
RoundTripPatterns == {<<"a", "b">>, <<"a", " ", "b">>, <<"a", "\t", "b">>}

RoundTripRules ==
    {r \in [id : {0}, mode : {"allow", "deny"}, pattern : RoundTripPatterns,
            isRegex : BOOLEAN, enabled : BOOLEAN,
            methods : {None, Some(<<sGET>>), Some(<<sGET, sPOST>>)},
            regexFlags : {None, Some(<<"i">>)}] :
        IsSome(r.regexFlags) => r.isRegex}

lineFolder == sAllow \o <<" ", " ">> \o sFolder \o <<" ", " ">> \o PatternOf("folder")
lineFolderDeny == sDeny \o <<" ">> \o sFolder \o <<" ">> \o <<"S", "/", "*", "*">>
lineDisabled == DISABLED_PREFIX \o sDeny \o <<" ">> \o sName \o <<" ">> \o <<"a">>
lineKeyword == sDeny \o <<"\t">> \o sKeyword \o <<" ">> \o <<"k">> \o <<" ">> \o sGET
lineBlank == <<" ">>

\* fewer than three fields
lineTwoFields == sAllow \o <<" ">> \o sFolder
\* unknown mode
lineBadMode == <<"b", "l", "o", "c", "k">> \o <<" ">> \o sFolder \o <<" ">> \o <<"x">>
\* unknown kind
lineBadType == sAllow \o <<" ">> \o <<"f", "i", "l", "e">> \o <<" ">> \o <<"x">>
\* unterminated quote
lineOpenQuote == sDeny \o <<" ">> \o sFolder \o <<" ">> \o <<"\"", "x", " ", "y">>
\* a disabled line with fewer than three fields
lineDisabledTwoFields == DISABLED_PREFIX \o sDeny \o <<" ">> \o sName

MalformedLines ==
    {lineTwoFields, lineBadMode, lineBadType, lineOpenQuote, lineDisabledTwoFields}

WellFormedLines ==
    {lineFolder, lineFolderDeny, lineDisabled, lineKeyword, lineBlank, commentLine}

RuleFileLines == WellFormedLines \cup MalformedLines

RuleFileContents ==
    {JoinLines(ls) : ls \in UNION {[1..n -> RuleFileLines] : n \in 1..MaxFileLines}}

InitRulesFile ==
    /\ rulesFile = None
    /\ fileRules = None
    /\ loaded = FALSE
    /\ ev = IdleEval
    /\ mc = IdleCall
    /\ bulk = IdleBulk
    /\ calls = IdleCalls
    /\ rf = IdleRulesFileCall
    /\ mu = IdleMutations
    /\ req = IdleRequest
    /\ log = IdleLog

\* serializeRule(filterType, rule)
SerializeRuleCall ==
    /\ rf.pc = "idle"
    /\ \E filterType \in FilterTypes, rule \in RoundTripRules :
          rf' = [pc |-> "serialized", op |-> "roundTrip", filterType |-> filterType,
                 rule |-> Some(rule), content |-> SerializeRule(filterType, rule),
                 result |-> None]
    /\ UNCHANGED <<rulesFile, fileRules, loaded, ev, mc, bulk, calls, mu, req, log>>

\* parseRulesFile on the line serializeRule returned
ParseSerialized ==
    /\ rf.pc = "serialized"
    /\ rf' = [rf EXCEPT !.pc = "done", !.result = Some(ParseRulesFile(rf.content))]
    /\ UNCHANGED <<rulesFile, fileRules, loaded, ev, mc, bulk, calls, mu, req, log>>

\* parseRulesFile(content)
ParseRulesFileCall ==
    /\ rf.pc = "idle"
    /\ \E content \in RuleFileContents :
          rf' = [pc |-> "done", op |-> "parse", filterType |-> "", rule |-> None,
                 content |-> content, result |-> Some(ParseRulesFile(content))]
    /\ UNCHANGED <<rulesFile, fileRules, loaded, ev, mc, bulk, calls, mu, req, log>>

NextRulesFile ==
    \/ SerializeRuleCall
    \/ ParseSerialized
    \/ ParseRulesFileCall

SpecRulesFile == InitRulesFile /\ [][NextRulesFile]_vars

\* the fields of a rule that the file format carries
RuleFields(rule) ==
    [mode |-> rule.mode, pattern |-> rule.pattern, isRegex |-> rule.isRegex,
     regexFlags |-> rule.regexFlags, methods |-> rule.methods,
     enabled |-> rule.enabled]

\* C16: parsing the line serializeRule wrote for a rule of kind k yields
\* exactly one entry, of kind k, with the same mode, pattern, isRegex,
\* regexFlags, methods and enabled.
C16_RoundTrip ==
    (rf.pc = "done" /\ rf.op = "roundTrip")
    => /\ Len(Get(rf.result).entries) = 1
       /\ Get(rf.result).entries[1].filterType = rf.filterType
       /\ RuleFields(Get(rf.result).entries[1].rule) = RuleFields(Get(rf.rule))

\* the lines of the parsed content
LinesOf(content) == SplitOn(content, "\n")

\* lines with line i (1-based) replaced by a comment
CommentedOut(lines, i) == [lines EXCEPT ![i] = commentLine]

\* C17: a malformed line (fewer than three fields, unknown mode, unknown
\* kind, unterminated quote) yields no entry, and the parse returns what it
\* returns when that line is a comment: every other line yields the same
\* entry with the same line number.
C17_MalformedLineIsSkipped ==
    (rf.pc = "done" /\ rf.op = "parse")
    => \A i \in DOMAIN LinesOf(rf.content) :
           LinesOf(rf.content)[i] \in MalformedLines
           => /\ \A j \in DOMAIN Get(rf.result).entries :
                     Get(rf.result).entries[j].lineNumber /= i - 1
              /\ Get(rf.result)
                 = ParseRulesFile(JoinLines(CommentedOut(LinesOf(rf.content), i)))

\* a malformed line between two rules: both rules parsed, at lines 0 and 2
C17_Witness ==
    /\ rf.pc = "done" /\ rf.op = "parse"
    /\ Len(LinesOf(rf.content)) = 3
    /\ LinesOf(rf.content)[1] \in {lineFolder, lineKeyword}
    /\ LinesOf(rf.content)[2] \in MalformedLines
    /\ LinesOf(rf.content)[3] \in {lineFolderDeny, lineDisabled}
    /\ Len(Get(rf.result).entries) = 2
    /\ Get(rf.result).entries[1].lineNumber = 0
    /\ Get(rf.result).entries[2].lineNumber = 2

\* the line is skipped by the loop of parseRulesFile before parseRuleLine
BlankOrComment(line) ==
    \/ Len(Trim(line)) = 0
    \/ StartsWith(Trim(line), <<"#">>) /\ ~StartsWith(Trim(line), DISABLED_PREFIX)

\* the 0-based indexes of the lines that hold a rule, enabled or disabled
RuleLineIndexes(lines) ==
    {i \in 0..(Len(lines) - 1) :
        ~BlankOrComment(lines[i + 1]) /\ lines[i + 1] \notin MalformedLines}

\* the rules of the enabled entries of kind k, in the order of entries
EnabledOfKind(entries, k) ==
    LET sel == SelectSeq(entries, LAMBDA e : e.filterType = k /\ e.rule.enabled)
    IN  [j \in 1..Len(sel) |-> sel[j].rule]

\* C18: entries holds one entry per rule line, in file order, each with the
\* 0-based index of its source line; grouped[k] is the subsequence of the
\* enabled entries of kind k, so disabled rules are in entries only.
C18_EntriesInFileOrder ==
    (rf.pc = "done" /\ rf.op = "parse")
    => /\ Len(Get(rf.result).entries)
          = Cardinality(RuleLineIndexes(LinesOf(rf.content)))
       /\ \A j \in DOMAIN Get(rf.result).entries :
              /\ Get(rf.result).entries[j].lineNumber
                 \in RuleLineIndexes(LinesOf(rf.content))
              /\ j > 1 => Get(rf.result).entries[j - 1].lineNumber
                          < Get(rf.result).entries[j].lineNumber
              /\ RuleFields(Get(rf.result).entries[j].rule).enabled
                 = ~StartsWith(Trim(LinesOf(rf.content)
                                        [Get(rf.result).entries[j].lineNumber + 1]),
                               DISABLED_PREFIX)
       /\ \A k \in FilterTypes :
              Get(rf.result).grouped[k] = EnabledOfKind(Get(rf.result).entries, k)

\* a comment first, then a disabled rule and an enabled one: two entries at
\* lines 1 and 2, the enabled one alone in its group
C18_Witness ==
    /\ rf.pc = "done" /\ rf.op = "parse"
    /\ LinesOf(rf.content) = <<commentLine, lineDisabled, lineFolder>>
    /\ Len(Get(rf.result).entries) = 2
    /\ Get(rf.result).entries[1].lineNumber = 1
    /\ ~Get(rf.result).entries[1].rule.enabled
    /\ Get(rf.result).entries[2].lineNumber = 2
    /\ Len(Get(rf.result).grouped["folder"]) = 1
    /\ Len(Get(rf.result).grouped["name"]) = 0

(***************************************************************************)
(* The matchers on regex rules ("~pattern" and "~pattern/flags" in the     *)
(* file): valid and invalid patterns, with and without the i flag.         *)
(***************************************************************************)
MaxRegexRules == 2

\* "(" is a pattern the RegExp constructor rejects
RegexPatterns(filterType) ==
    IF filterType = "folder" THEN {<<"^", "P">>, <<"^", "p">>, <<"(">>}
    ELSE IF filterType = "name" THEN {<<"^", "a">>, <<"^", "A">>, <<"(">>}
    ELSE {<<"k">>, <<"X">>, <<"(">>}

RegexRules(filterType) ==
    [id : {0}, mode : {"allow", "deny"}, pattern : RegexPatterns(filterType),
     isRegex : {TRUE}, enabled : BOOLEAN, methods : {None},
     regexFlags : {None, Some(<<"i">>)}]

\* the lists, each rule carrying its position as id
RegexLists(filterType) ==
    UNION {{[i \in DOMAIN l |-> [l[i] EXCEPT !.id = i]] :
               l \in [1..n -> RegexRules(filterType)]} : n \in 1..MaxRegexRules}

\* checkFolderFilter(filePath, rules) on regex rules
CallFolderFilterRegex ==
    /\ mc.pc = "idle"
    /\ \E rules \in RegexLists("folder"), filePath \in Paths :
          mc' = [IdleCall EXCEPT !.pc = "done", !.filterType = "folder",
                                 !.rules = rules, !.filePath = filePath,
                                 !.result = CheckFolderFilter(filePath, rules)]
    /\ UNCHANGED <<rulesFile, fileRules, loaded, ev, bulk, calls, rf, mu, req, log>>

\* checkDocumentNameFilter(filePath, rules) on regex rules
CallDocumentNameFilterRegex ==
    /\ mc.pc = "idle"
    /\ \E rules \in RegexLists("name"), filePath \in Paths :
          mc' = [IdleCall EXCEPT !.pc = "done", !.filterType = "name",
                                 !.rules = rules, !.filePath = filePath,
                                 !.result = CheckDocumentNameFilter(filePath, rules)]
    /\ UNCHANGED <<rulesFile, fileRules, loaded, ev, bulk, calls, rf, mu, req, log>>

\* checkKeywordFilter(filePath, rules, vault) on regex rules, up to its
\* suspension in vault.cachedRead
CallKeywordFilterRegex ==
    /\ mc.pc = "idle"
    /\ \E rules \in RegexLists("keyword") :
          mc' = [IdleCall EXCEPT !.pc = "reading",
                                 !.filterType = "keyword", !.rules = rules,
                                 !.file = [exists |-> TRUE, cache |-> None],
                                 !.read = "pending"]
    /\ UNCHANGED <<rulesFile, fileRules, loaded, ev, bulk, calls, rf, mu, req, log>>

NextRegex ==
    \/ CallFolderFilterRegex
    \/ CallDocumentNameFilterRegex
    \/ CallKeywordFilterRegex
    \/ KeywordFilterRead

SpecRegex == InitMatchers /\ [][NextRegex]_vars

\* the text the rules of the call are matched against
Candidate ==
    IF mc.filterType = "folder" THEN mc.filePath
    ELSE IF mc.filterType = "name" THEN Basename(mc.filePath)
    ELSE mc.content

\* the matcher returned after matching its rules (the read, if any, succeeded)
RegexCallDone ==
    /\ mc.pc = "done"
    /\ \A i \in DOMAIN mc.rules : mc.rules[i].isRegex
    /\ mc.filterType = "keyword" => mc.read = "ok"

\* the rule's flags contain i
HasFlagI(rule) == IsSome(rule.regexFlags) /\ SeqIncludes(Get(rule.regexFlags), "i")

\* new RegExp(pattern, flags).test(text) for the patterns above: with the
\* i flag the letters match whatever their case
FlagAwareTest(rule, text) ==
    IF HasFlagI(rule)
    THEN RegExpTest(ToLowerCase(rule.pattern), ToLowerCase(text))
    ELSE RegExpTest(rule.pattern, text)

\* the enabled rules with a valid pattern that match under their flags
FlagAwareMatches ==
    {i \in DOMAIN mc.rules :
        /\ mc.rules[i].enabled
        /\ ~RegExpThrows(mc.rules[i].pattern)
        /\ FlagAwareTest(mc.rules[i], Candidate)}

\* C19: a regex rule matches case-insensitively exactly when its regexFlags
\* contain i: checkFolderFilter and checkKeywordFilter return the decision
\* of the first enabled rule whose pattern matches under its flags, and
\* none when there is no such rule.
C19_FlagIMatchesAnyCase ==
    (RegexCallDone /\ mc.filterType \in {"folder", "keyword"})
    => /\ IsSome(mc.result) <=> FlagAwareMatches /= {}
       /\ IsSome(mc.result)
          => \A j \in FlagAwareMatches :
                 Get(Get(mc.result).matchedRule).id <= j

\* the matcher of the call on the rules given
MatcherOn(rules) ==
    IF mc.filterType = "folder" THEN CheckFolderFilter(mc.filePath, rules)
    ELSE IF mc.filterType = "name" THEN CheckDocumentNameFilter(mc.filePath, rules)
    ELSE CheckKeywordFilterAfterRead(Some(mc.content), rules)

\* C20: a rule whose regex is invalid never matches and never makes the
\* call fail: the decision is the one of the list without that rule, so
\* the rules after it are still consulted.
C20_InvalidRegexIsSkipped ==
    RegexCallDone
    => \A i \in DOMAIN mc.rules :
           RegExpThrows(mc.rules[i].pattern)
           => /\ mc.result = MatcherOn(RemoveAt(mc.rules, i))
              /\ IsSome(mc.result)
                 => Get(mc.result).matchedRule /= Some(mc.rules[i])

\* an enabled rule with an invalid regex first, then a rule that matches:
\* the second rule decides
C20_Witness ==
    /\ RegexCallDone
    /\ Len(mc.rules) = 2
    /\ mc.rules[1].enabled /\ RegExpThrows(mc.rules[1].pattern)
    /\ IsSome(mc.result)
    /\ Get(mc.result).matchedRule = Some(mc.rules[2])

(***************************************************************************)
(* checkTagFilter on compound patterns: tags joined with "+", in any case, *)
(* with blanks around the "+", against inline and front-matter tags.       *)
(***************************************************************************)
MaxTagRules == 2

\* "#s", "#S+#a", "#s + #d", and "a" (a tag written without its "#")
TagPatterns ==
    {<<"#", "s">>, <<"#", "S", "+", "#", "a">>,
     <<"#", "s", " ", "+", " ", "#", "d">>, <<"a">>}

TagRuleSet ==
    [id : {0}, mode : {"allow", "deny"}, pattern : TagPatterns,
     isRegex : {FALSE}, enabled : BOOLEAN, methods : {None}, regexFlags : {None}]

\* the lists, each rule carrying its position as id
TagRuleLists ==
    UNION {{[i \in DOMAIN l |-> [l[i] EXCEPT !.id = i]] :
               l \in [1..n -> TagRuleSet]} : n \in 1..MaxTagRules}

\* cache.tags[i].tag and cache.frontmatter.tags of the file
TagCaches ==
    [tags : {<<>>, <<(<<"#", "S">>)>>, <<(<<"#", "s">>), (<<"#", "D">>)>>},
     frontmatter : {<<>>, <<(<<"a">>)>>, <<(<<"#", "A">>), (<<"d">>)>>}]

\* checkTagFilter(filePath, rules, metadataCache, vault) on a file with metadata
CallTagFilterCompound ==
    /\ mc.pc = "idle"
    /\ \E rules \in TagRuleLists, cache \in TagCaches :
          mc' = [IdleCall EXCEPT !.pc = "done", !.filterType = "tag",
                                 !.rules = rules,
                                 !.file = [exists |-> TRUE, cache |-> Some(cache)],
                                 !.result = CheckTagFilter([exists |-> TRUE,
                                                            cache |-> Some(cache)],
                                                           rules)]
    /\ UNCHANGED <<rulesFile, fileRules, loaded, ev, bulk, calls, rf, mu, req, log>>

NextTags == CallTagFilterCompound

SpecTags == InitMatchers /\ [][NextTags]_vars

\* the tags a rule asks for: the parts around "+", trimmed, or the pattern
JoinedTags(pattern) ==
    IF Includes(pattern, <<"+">>)
    THEN {ToLowerCase(Trim(SplitOn(pattern, "+")[i])) :
             i \in DOMAIN SplitOn(pattern, "+")}
    ELSE {ToLowerCase(pattern)}

\* the enabled rules all of whose tags are in the tag set of the file
AllTagsPresent ==
    {i \in DOMAIN mc.rules :
        mc.rules[i].enabled /\ JoinedTags(mc.rules[i].pattern) \subseteq FileTagSet(mc.file)}

\* C21: a tag rule matches iff every tag its pattern joins with "+" (its
\* single tag without "+") is in the file's tag set, the union of the inline
\* and the front-matter tags, lower-cased and with a leading "#": the call
\* returns the decision of the first enabled such rule, none without one.
C21_CompoundTagNeedsEveryTag ==
    (mc.pc = "done" /\ mc.filterType = "tag" /\ mc.file.exists /\ IsSome(mc.file.cache))
    => /\ IsSome(mc.result) <=> AllTagsPresent /= {}
       /\ IsSome(mc.result)
          => /\ IsSome(Get(mc.result).matchedRule)
             /\ Get(Get(mc.result).matchedRule).id \in AllTagsPresent
             /\ \A j \in AllTagsPresent : Get(Get(mc.result).matchedRule).id <= j

\* "#S+#a" matching a file with the inline tag #s and the front-matter tag
\* a, after "#s + #d" did not match for want of d
C21_Witness ==
    /\ mc.pc = "done" /\ mc.filterType = "tag"
    /\ Len(mc.rules) = 2
    /\ mc.rules[1].enabled /\ mc.rules[1].pattern = <<"#", "s", " ", "+", " ", "#", "d">>
    /\ mc.rules[2].pattern = <<"#", "S", "+", "#", "a">>
    /\ Get(mc.file.cache).tags = <<(<<"#", "S">>)>>
    /\ Get(mc.file.cache).frontmatter = <<(<<"a">>)>>
    /\ IsSome(mc.result)
    /\ Get(mc.result).matchedRule = Some(mc.rules[2])

(***************************************************************************)
(* The content reads of one evaluateFile call (specification Spec).        *)
(***************************************************************************)
\* the stages before the keyword stage
EarlierStages == {"folder", "name", "tag"}

\* C27: a call reads the content at most once, and only when the rule set
\* has a keyword rule and neither the global tags nor the folder, name and
\* tag stages gave a decision applicable to the method; a call decided by
\* one of those stages has read nothing.
C27_ContentReadOnlyForKeywordStage ==
    /\ ev.reads \in {0, 1}
    /\ ev.reads = 1
       => /\ Len(RulesAt("keyword")) > 0
          /\ GlobalNoOpinion
          /\ \A t \in EarlierStages : ~StageApplies(t, None)
    /\ (Done /\ (~GlobalNoOpinion \/ \E t \in EarlierStages : StageApplies(t, None)))
       => (ev.reads = 0 /\ ev.read = "none")

\* an existing file, a rule set with a keyword rule and a tag rule, the tag
\* rule deciding: nothing was read
C27_Witness ==
    /\ Done
    /\ Len(RulesAt("keyword")) > 0
    /\ ev.file.exists
    /\ Decision.filterType = Some("tag")
    /\ IsSome(Decision.matchedRule)
    /\ ev.reads = 0

(***************************************************************************)
(* securityFilterMiddleware.ts: the request handler returned by            *)
(* createSecurityFilterMiddleware.  A request is its method, its decoded   *)
(* path (None when decodeURIComponent throws), the settings of the moment  *)
(* and the active file.  The handler suspends at most once, in             *)
(* filterEngine.evaluateFile.                                              *)
(***************************************************************************)
WRITE_METHODS == {sPUT, sPOST, sPATCH, sDELETE}

routeRoot == <<"/">>
routeOpenapi == <<"/", "o", "p", "e", "n", "a", "p", "i", ".", "y", "a", "m", "l">>
EXEMPT_ROUTES == {routeRoot, routeOpenapi}

prefixVault == <<"/", "v", "a", "u", "l", "t", "/">>
prefixActive == <<"/", "a", "c", "t", "i", "v", "e", "/">>
prefixPeriodic == <<"/", "p", "e", "r", "i", "o", "d", "i", "c", "/">>
prefixCommands == <<"/", "c", "o", "m", "m", "a", "n", "d", "s", "/">>
prefixOpen == <<"/", "o", "p", "e", "n", "/">>
prefixSearch == <<"/", "s", "e", "a", "r", "c", "h">>
WRITE_CAPABLE_PREFIXES ==
    {prefixVault, prefixActive, prefixPeriodic, prefixCommands, prefixOpen}

extCrt == <<".", "c", "r", "t">>
dotDot == <<".", ".">>
\* the character U+0000
nullByte == <<"NUL">>

\* s.endsWith(suffix)
EndsWith(s, suffix) ==
    Len(s) >= Len(suffix) /\ SubSeq(s, Len(s) - Len(suffix) + 1, Len(s)) = suffix

\* raw.replace(/\/{2,}/g, "/")
RECURSIVE CollapseSlashes(_)
CollapseSlashes(raw) ==
    IF Len(raw) < 2 THEN raw
    ELSE IF raw[1] = "/" /\ raw[2] = "/" THEN CollapseSlashes(Tail(raw))
    ELSE <<raw[1]>> \o CollapseSlashes(Tail(raw))

\* s.replace(/^\/+/, "")
RECURSIVE StripLeadingSlashes(_)
StripLeadingSlashes(s) ==
    IF Len(s) > 0 /\ s[1] = "/" THEN StripLeadingSlashes(Tail(s)) ELSE s

\* normalizeVaultPath(raw)
NormalizeVaultPath(raw) == StripLeadingSlashes(CollapseSlashes(raw))

\* (req.method ?? "GET").toUpperCase()
MethodOf(r) == IF IsSome(r.method) THEN ToUpperCase(Get(r.method)) ELSE sGET

\* auditLogger.logError(...); res.status(status).json(...); return
Respond(r, status, errorCode, message) ==
    [r EXCEPT !.pc = "done", !.status = status, !.errorCode = errorCode,
              !.responses = @ + 1, !.logged = Append(@, message)]

\* next()
CallNext(r) == [r EXCEPT !.pc = "done", !.nextCalls = @ + 1]

\* the catch block: auditLogger.logError(...); next(err)
CallNextErr(r) ==
    [r EXCEPT !.pc = "done", !.nextCalls = @ + 1, !.nextErr = TRUE,
              !.logged = Append(@, "security filter exception")]

\* the command filtering and the final next()
CommandFiltering(r) ==
    IF StartsWith(Get(r.path), prefixCommands) /\ MethodOf(r) = sPOST
       /\ r.settings.readOnlyMode
    THEN Respond(r, 403, "WriteOperationDenied",
                 "command execution denied by read-only mode")
    ELSE CallNext(r)

\* from the search result filtering on
SearchAndCommands(r) ==
    IF StartsWith(Get(r.path), prefixSearch)
    THEN CommandFiltering([r EXCEPT !.interceptor = "search"])
    ELSE CommandFiltering(r)

\* from the active file filtering on, up to the await of evaluateFile
ActiveFile(r) ==
    IF StartsWith(Get(r.path), prefixActive) /\ IsSome(r.activeFile)
    THEN [r EXCEPT !.pc = "evaluating", !.stage = "active",
                   !.target = Get(r.activeFile), !.evaluations = @ + 1]
    ELSE SearchAndCommands(r)

\* the vault path filtering once vaultPath is normalized
VaultPath(r, vaultPath) ==
    IF Includes(vaultPath, dotDot) \/ Includes(vaultPath, nullByte)
    THEN Respond(r, 400, "40000", "path traversal attempt blocked")
    ELSE IF Len(vaultPath) > 0 /\ ~EndsWith(vaultPath, <<"/">>)
    THEN [r EXCEPT !.pc = "evaluating", !.stage = "vault",
                   !.target = vaultPath, !.evaluations = @ + 1]
    ELSE ActiveFile([r EXCEPT !.interceptor = "listing", !.dirPrefix = vaultPath])

\* from the vault path filtering on
VaultRoute(r) ==
    IF StartsWith(Get(r.path), prefixVault)
    THEN VaultPath(r, NormalizeVaultPath(Slice(Get(r.path), Len(prefixVault))))
    ELSE ActiveFile(r)

\* from the read-only mode check on
ReadOnlyCheck(r) ==
    IF /\ r.settings.readOnlyMode
       /\ MethodOf(r) \in WRITE_METHODS
       /\ \E p \in WRITE_CAPABLE_PREFIXES : StartsWith(Get(r.path), p)
    THEN Respond(r, 403, "WriteOperationDenied",
                 "write operation denied by read-only mode")
    ELSE VaultRoute(r)

\* the handler from its call to its return or to the await of evaluateFile
Middleware(r) ==
    IF ~r.settings.securityFilterEnabled THEN CallNext(r)
    ELSE IF ~IsSome(r.path) THEN CallNextErr(r)
    ELSE IF Get(r.path) \in EXEMPT_ROUTES \/ EndsWith(Get(r.path), extCrt)
    THEN CallNext(r)
    ELSE ReadOnlyCheck(r)

\* the handler going on after a denied decision as after an allowed one
AfterEvaluate_NoReturn(r, decision) ==
    IF ~decision.allowed
    THEN SearchAndCommands(
             [r EXCEPT !.status = 403, !.errorCode = "AccessDenied",
                       !.responses = @ + 1,
                       !.logged = Append(@, "access denied")])
    ELSE IF r.stage = "vault" THEN ActiveFile(r)
    ELSE SearchAndCommands(r)

\* the handler from the return of evaluateFile on
AfterEvaluate(r, decision) ==
    IF ~decision.allowed
    THEN Respond(r, 403, "AccessDenied",
                 IF r.stage = "vault" THEN "access denied"
                 ELSE "active file access denied")
    ELSE IF r.stage = "vault" THEN ActiveFile(r)
    ELSE SearchAndCommands(r)

\* the requests: status, certificate, OpenAPI document, vault files and
\* directories, traversal attempts, active file, periodic note, command,
\* open, search
RequestPaths ==
    {Some(routeRoot), Some(routeOpenapi), Some(<<"/", "x">> \o extCrt),
     Some(prefixVault), Some(prefixVault \o <<"P", "/">>),
     Some(prefixVault \o pathPa), Some(prefixVault \o <<"/">> \o pathSa),
     Some(prefixVault \o pathPa \o extCrt),
     Some(prefixVault \o dotDot \o <<"/", "a">>),
     Some(prefixVault \o <<"a">> \o nullByte),
     Some(prefixVault \o dotDot \o <<"/", "a">> \o extCrt),
     Some(prefixActive), Some(prefixPeriodic \o <<"d", "/">>),
     Some(prefixCommands \o <<"c", "/">>), Some(prefixOpen \o pathPa),
     Some(prefixSearch \o <<"/">>), None}

RequestMethods == {None, Some(sGET), Some(<<"p", "u", "t">>), Some(sPOST),
                   Some(sPATCH), Some(sDELETE)}

RequestSettings ==
    [securityFilterEnabled : BOOLEAN, readOnlyMode : BOOLEAN,
     defaultPolicy : {"allow", "deny"}, globalAllowTag : {<<>>, tagAllow},
     globalDenyTag : {<<>>}]

\* access-rules.conf: missing, "allow folder P/**", or "deny keyword x"
RequestFiles ==
    {None,
     Some(SerializeRule("folder", ConcRule("allow", "folder", PatternOf("folder")))),
     Some(SerializeRule("keyword", ConcRule("deny", "keyword", <<"x">>)))}

RequestFileStates ==
    {[exists |-> FALSE, cache |-> None],
     [exists |-> TRUE, cache |-> None],
     [exists |-> TRUE, cache |-> Some([tags |-> <<>>, frontmatter |-> <<>>])],
     [exists |-> TRUE, cache |-> Some([tags |-> <<>>, frontmatter |-> <<(<<"a">>)>>])]}

InitMiddleware ==
    /\ rulesFile \in RequestFiles
    /\ fileRules = GroupedOf(rulesFile)
    /\ loaded = TRUE
    /\ ev = IdleEval
    /\ mc = IdleCall
    /\ bulk = IdleBulk
    /\ calls = IdleCalls
    /\ rf = IdleRulesFileCall
    /\ mu = IdleMutations
    /\ req = IdleRequest
    /\ log = IdleLog

\* express calls the handler with a request
MiddlewareCall ==
    /\ req.pc = "idle"
    /\ \E path \in RequestPaths, method \in RequestMethods,
          settings \in RequestSettings, activeFile \in {None, Some(pathPa)} :
          req' = Middleware([IdleRequest EXCEPT !.path = path, !.method = method,
                                                !.settings = settings,
                                                !.activeFile = activeFile,
                                                !.rules = fileRules])
    /\ UNCHANGED <<rulesFile, fileRules, loaded, ev, mc, bulk, calls, rf, mu, log>>

\* filterEngine.evaluateFile(target, settings, method) returns its decision
MiddlewareEvaluated ==
    /\ req.pc = "evaluating"
    /\ \E file \in RequestFileStates, read \in Reads :
          req' = AfterEvaluate(
                     [req EXCEPT !.file = file, !.read = read,
                                 !.decision = Some(EvaluateFile(fileRules, req.target,
                                                       req.settings,
                                                       Some(MethodOf(req)), file, read))],
                     EvaluateFile(fileRules, req.target, req.settings,
                                  Some(MethodOf(req)), file, read))
    /\ UNCHANGED <<rulesFile, fileRules, loaded, ev, mc, bulk, calls, rf, mu, log>>

\* filterEngine.evaluateFile throws (the vault or the metadata cache threw)
MiddlewareEvaluateThrows ==
    /\ req.pc = "evaluating"
    /\ req' = CallNextErr(req)
    /\ UNCHANGED <<rulesFile, fileRules, loaded, ev, mc, bulk, calls, rf, mu, log>>

NextMiddleware ==
    \/ MiddlewareCall
    \/ MiddlewareEvaluated
    \/ MiddlewareEvaluateThrows

SpecMiddleware == InitMiddleware /\ [][NextMiddleware]_vars

\* the handler has returned
Handled == req.pc = "done"

\* the request was passed on to the route handler
PassedOn == req.nextCalls > 0 /\ ~req.nextErr

\* the decoded path is under one of the write-capable routes
OnWriteRoute ==
    IsSome(req.path) /\ \E p \in WRITE_CAPABLE_PREFIXES : StartsWith(Get(req.path), p)

\* C22: with security filtering and read-only mode enabled, a PUT, POST,
\* PATCH or DELETE on a vault file, the active file, a periodic note, a
\* command or /open/ is answered 403 and not passed on, and no GET is
\* rejected for read-only mode.
C22_ReadOnlyBlocksWrites ==
    (Handled /\ req.settings.securityFilterEnabled /\ req.settings.readOnlyMode)
    => /\ (OnWriteRoute /\ MethodOf(req) \in WRITE_METHODS)
          => (req.status = 403 /\ req.nextCalls = 0)
       /\ MethodOf(req) = sGET => req.errorCode /= "WriteOperationDenied"

\* the decoded path is under /vault/ and contains ".." or a null byte
TraversalRequest ==
    /\ IsSome(req.path)
    /\ StartsWith(Get(req.path), prefixVault)
    /\ Includes(Get(req.path), dotDot) \/ Includes(Get(req.path), nullByte)

\* C23: with security filtering enabled, a request under /vault/ whose
\* decoded path contains ".." or a null byte is answered 400, is not
\* evaluated by the filter engine and is not passed on, whatever the method
\* and the read-only mode.
C23_TraversalAnswered400 ==
    (req.settings.securityFilterEnabled /\ TraversalRequest)
    => /\ req.evaluations = 0
       /\ req.nextCalls = 0
       /\ Handled => req.status = 400

\* no rule of the installed rule set allows
NoAllowRule ==
    ~IsSome(req.rules)
    \/ \A t \in FilterTypes : \A i \in DOMAIN Get(req.rules)[t] :
           Get(req.rules)[t][i].mode /= "allow"

\* the request accesses a vault file: /vault/<file>, /active/ with an active
\* file, /periodic/<period>
FileRequest ==
    /\ IsSome(req.path)
    /\ ~TraversalRequest
    /\ \/ /\ StartsWith(Get(req.path), prefixVault)
          /\ Len(Get(req.path)) > Len(prefixVault)
          /\ ~EndsWith(Get(req.path), <<"/">>)
       \/ StartsWith(Get(req.path), prefixActive) /\ IsSome(req.activeFile)
       \/ /\ StartsWith(Get(req.path), prefixPeriodic)
          /\ Len(Get(req.path)) > Len(prefixPeriodic)

\* C24: with security filtering enabled, default policy deny, no allow rule
\* and no global allow tag, a request that accesses a vault file
\* (/vault/<file>, /active/, /periodic/<period>, any method) is answered 403
\* and never passed to the route handler.
C24_DefaultDenyFromInstall ==
    (/\ Handled
     /\ req.settings.securityFilterEnabled
     /\ req.settings.defaultPolicy = "deny"
     /\ Len(req.settings.globalAllowTag) = 0
     /\ NoAllowRule
     /\ FileRequest
     /\ ~req.nextErr)
    => (req.status = 403 /\ req.nextCalls = 0)

\* the route is exempt from filtering
ExemptRoute ==
    /\ IsSome(req.path)
    /\ Get(req.path) \in EXEMPT_ROUTES \/ EndsWith(Get(req.path), extCrt)

\* C30: a handled request has exactly one outcome: next called once
\* (possibly with an error) and no response sent, or one 400 or 403 response
\* sent and next not called; before the handler returns neither happened;
\* with filtering disabled or an exempt route next is called without any
\* evaluation.
C30_ExactlyOneOutcome ==
    /\ ~Handled => (req.nextCalls = 0 /\ req.responses = 0)
    /\ Handled
       => \/ req.nextCalls = 1 /\ req.responses = 0 /\ req.status = 0
          \/ req.nextCalls = 0 /\ req.responses = 1 /\ req.status \in {400, 403}
    /\ (Handled /\ (~req.settings.securityFilterEnabled
                    \/ (ExemptRoute /\ req.settings.securityFilterEnabled)))
       => (req.nextCalls = 1 /\ ~req.nextErr /\ req.evaluations = 0
           /\ req.responses = 0)

\* a vault file request evaluated and denied: one 403, next never called
C30_Witness ==
    /\ Handled
    /\ req.stage = "vault" /\ req.evaluations = 1
    /\ IsSome(req.decision) /\ ~Get(req.decision).allowed
    /\ req.responses = 1 /\ req.status = 403 /\ req.nextCalls = 0

(***************************************************************************)
(* securityFilterMiddleware.ts: attachResponseInterceptor and              *)
(* attachSearchInterceptor.  The middleware has passed a directory listing *)
(* or a search request on; the route handler then calls res.json(body),    *)
(* which the interceptor replaced.                                         *)
(***************************************************************************)
MaxEntries == 2

pathPb == <<"P", "/", "b">>
dirP == <<"P", "/">>

\* GET /vault/P/ and GET /search/
InterceptedRequests ==
    {[IdleRequest EXCEPT !.path = Some(prefixVault \o dirP), !.method = Some(sGET),
                         !.settings = settings]
       : settings \in {s \in RequestSettings :
                          s.securityFilterEnabled /\ ~s.readOnlyMode
                          /\ Len(s.globalAllowTag) = 0}}
    \cup {[IdleRequest EXCEPT !.path = Some(prefixSearch \o <<"/">>),
                              !.method = Some(sPOST), !.settings = settings]
            : settings \in {s \in RequestSettings :
                               s.securityFilterEnabled /\ ~s.readOnlyMode
                               /\ Len(s.globalAllowTag) = 0}}

\* access-rules.conf: missing, "deny name a", or "deny keyword x"
InterceptFiles ==
    {None,
     Some(SerializeRule("name", ConcRule("deny", "name", <<"a">>))),
     Some(SerializeRule("keyword", ConcRule("deny", "keyword", <<"x">>)))}

\* what the vault answers for each path while the response is filtered
InterceptVaults ==
    [{pathPa, pathPb, pathSa} ->
        {[exists |-> FALSE, cache |-> None],
         [exists |-> TRUE, cache |-> Some([tags |-> <<>>, frontmatter |-> <<>>])]}]

\* body.files of a listing of P/: names relative to the directory
EntryLists == UNION {[1..n -> {<<"a">>, <<"b">>}] : n \in 0..MaxEntries}

\* the records of a search response: { filename, ... }
ResultLists ==
    UNION {[1..n -> [filename : {Some(pathPa), Some(pathPb), Some(pathSa)},
                     path : {None}]] : n \in 0..MaxEntries}

InitIntercept ==
    /\ rulesFile \in InterceptFiles
    /\ fileRules = GroupedOf(rulesFile)
    /\ loaded = TRUE
    /\ ev = IdleEval
    /\ mc = IdleCall
    /\ bulk = IdleBulk
    /\ calls = IdleCalls
    /\ rf = IdleRulesFileCall
    /\ mu = IdleMutations
    /\ req \in {Middleware(r) : r \in InterceptedRequests}
    /\ log = IdleLog

\* body.files.map((f) => `${dirPrefix}${f}`)
FullPaths(dirPrefix, files) == [i \in DOMAIN files |-> dirPrefix \o files[i]]

\* filtered.map((f) => f.slice(dirPrefix.length))
RelativePaths(dirPrefix, filtered) ==
    [i \in DOMAIN filtered |-> Slice(filtered[i], Len(dirPrefix))]

\* filterEngine.filterPaths(paths, settings), to the await of Promise.all
StartFilterPaths(paths, settings, vault) ==
    [pc |-> "waiting", op |-> "filterPaths", input |-> paths,
     settings |-> settings, rules |-> fileRules, vault |-> vault,
     items |-> [i \in DOMAIN paths |->
                   BulkItem(fileRules, settings, vault, paths[i], Some(paths[i]))],
     order |-> ReturnedAtCall([i \in DOMAIN paths |->
                   BulkItem(fileRules, settings, vault, paths[i], Some(paths[i]))]),
     output |-> <<>>]

\* filterEngine.filterSearchResults(results, settings), to the await
StartFilterSearchResults(results, settings, vault) ==
    [pc |-> "waiting", op |-> "filterSearchResults", input |-> results,
     settings |-> settings, rules |-> fileRules, vault |-> vault,
     items |-> [i \in DOMAIN results |->
                   BulkItem(fileRules, settings, vault, results[i],
                            DerivedPath(results[i]))],
     order |-> ReturnedAtCall([i \in DOMAIN results |->
                   BulkItem(fileRules, settings, vault, results[i],
                            DerivedPath(results[i]))]),
     output |-> <<>>]

\* the route handler calls res.json({ files }) on a listing response
JsonFiles ==
    /\ req.pc = "done" /\ req.interceptor = "listing" /\ ~IsSome(req.body)
    /\ \E files \in EntryLists, vault \in InterceptVaults :
          /\ req' = [req EXCEPT !.body = Some([kind |-> "files", list |-> files])]
          /\ bulk' = StartFilterPaths(FullPaths(req.dirPrefix, files),
                                      req.settings, vault)
    /\ UNCHANGED <<rulesFile, fileRules, loaded, ev, mc, calls, rf, mu, log>>

\* the route handler calls res.json([...]) on a search response
JsonArray ==
    /\ req.pc = "done" /\ req.interceptor = "search" /\ ~IsSome(req.body)
    /\ \E results \in ResultLists, vault \in InterceptVaults :
          /\ req' = [req EXCEPT !.body = Some([kind |-> "array", list |-> results])]
          /\ bulk' = StartFilterSearchResults(results, req.settings, vault)
    /\ UNCHANGED <<rulesFile, fileRules, loaded, ev, mc, calls, rf, mu, log>>

\* the route handler calls res.json(body) with another body (an error
\* message): return originalJson.call(res, body)
JsonOther ==
    /\ req.pc = "done" /\ req.interceptor /= "none" /\ ~IsSome(req.body)
    /\ req' = [req EXCEPT !.body = Some([kind |-> "other", list |-> <<>>]),
                          !.sent = Some([kind |-> "other", list |-> <<>>])]
    /\ UNCHANGED <<rulesFile, fileRules, loaded, ev, mc, bulk, calls, rf, mu, log>>

\* an evaluateFile call of the filtering throws: Promise.all rejects
FilterThrows ==
    /\ bulk.pc = "waiting"
    /\ bulk' = [bulk EXCEPT !.pc = "failed"]
    /\ UNCHANGED <<rulesFile, fileRules, loaded, ev, mc, calls, rf, mu, req, log>>

\* .then((filtered) => ... originalJson.call(res, ...))
InterceptorThen ==
    /\ bulk.pc = "done" /\ IsSome(req.body) /\ ~IsSome(req.sent)
    /\ req' = [req EXCEPT !.sent =
                  Some([kind |-> Get(req.body).kind,
                        list |-> IF req.interceptor = "listing"
                                 THEN RelativePaths(req.dirPrefix, bulk.output)
                                 ELSE bulk.output])]
    /\ UNCHANGED <<rulesFile, fileRules, loaded, ev, mc, bulk, calls, rf, mu, log>>

\* the catch sending the body as the handler gave it
InterceptorCatch_Unfiltered ==
    /\ bulk.pc = "failed" /\ IsSome(req.body) /\ ~IsSome(req.sent)
    /\ req' = [req EXCEPT !.sent = req.body]
    /\ UNCHANGED <<rulesFile, fileRules, loaded, ev, mc, bulk, calls, rf, mu, log>>

\* .catch((err) => { body.files = []; originalJson.call(res, body) }), and
\* originalJson.call(res, []) for a search
InterceptorCatch ==
    /\ bulk.pc = "failed" /\ IsSome(req.body) /\ ~IsSome(req.sent)
    /\ req' = [req EXCEPT !.sent = Some([kind |-> Get(req.body).kind, list |-> <<>>])]
    /\ UNCHANGED <<rulesFile, fileRules, loaded, ev, mc, bulk, calls, rf, mu, log>>

NextIntercept ==
    \/ JsonFiles
    \/ JsonArray
    \/ JsonOther
    \/ BulkReadResolve
    \/ BulkReadReject
    \/ BulkReturn
    \/ FilterThrows
    \/ InterceptorThen
    \/ InterceptorCatch

SpecIntercept == InitIntercept /\ [][NextIntercept]_vars

\* the vault path entry i of the handler's body stands for
EntryPath(i) ==
    IF Get(req.body).kind = "files" THEN req.dirPrefix \o Get(req.body).list[i]
    ELSE Get(Get(req.body).list[i].filename)

MaxToggles == 3
MaxToggleLines == 2

\* content = await adapter.read(rulesPath), "" when the read throws
ReadContent(file) == IF IsSome(file) THEN Get(file) ELSE <<>>

\* the mutator of appendRule
AppendMutator(lines, line) ==
    IF Len(lines) > 0 /\ Len(Trim(lines[Len(lines)])) /= 0
    THEN Append(Append(lines, <<>>), line)
    ELSE Append(lines, line)

\* the mutator of removeRuleByLine: lines.splice(lineNumber, 1)
RemoveMutator(lines, lineNumber) ==
    IF lineNumber >= 0 /\ lineNumber < Len(lines)
    THEN SubSeq(lines, 1, lineNumber) \o SubSeq(lines, lineNumber + 2, Len(lines))
    ELSE lines

\* a toggle that puts the prefix before an already disabled line too
ToggleMutator_PrefixAlways(lines, lineNumber, enabled) ==
    IF lineNumber < 0 \/ lineNumber >= Len(lines) THEN lines
    ELSE IF enabled /\ StartsWith(Trim(lines[lineNumber + 1]), DISABLED_PREFIX)
    THEN [lines EXCEPT ![lineNumber + 1] =
             Slice(Trim(lines[lineNumber + 1]), Len(DISABLED_PREFIX))]
    ELSE IF ~enabled
    THEN [lines EXCEPT ![lineNumber + 1] =
             DISABLED_PREFIX \o Trim(lines[lineNumber + 1])]
    ELSE lines

\* the mutator of toggleRuleByLine
ToggleMutator(lines, lineNumber, enabled) ==
    IF lineNumber < 0 \/ lineNumber >= Len(lines) THEN lines
    ELSE IF enabled /\ StartsWith(Trim(lines[lineNumber + 1]), DISABLED_PREFIX)
    THEN [lines EXCEPT ![lineNumber + 1] =
             Slice(Trim(lines[lineNumber + 1]), Len(DISABLED_PREFIX))]
    ELSE IF ~enabled /\ ~StartsWith(Trim(lines[lineNumber + 1]), DISABLED_PREFIX)
    THEN [lines EXCEPT ![lineNumber + 1] =
             DISABLED_PREFIX \o Trim(lines[lineNumber + 1])]
    ELSE lines

\* the mutator a call passes to mutateFile
Mutator(call, lines) ==
    IF call.op = "appendRule" THEN AppendMutator(lines, call.line)
    ELSE IF call.op = "removeRuleByLine" THEN RemoveMutator(lines, call.lineNumber)
    ELSE ToggleMutator(lines, call.lineNumber, call.enabled)

\* mutateFile without interruption: the file it leaves
MutateFile(file, call) ==
    Some(JoinLines(Mutator(call, SplitOn(ReadContent(file), "\n"))))

\* a rule line with surrounding blanks
linePadded == <<" ">> \o lineFolderDeny \o <<" ">>

ToggleLines ==
    {lineFolder, linePadded, lineDisabled, lineBlank, commentLine, lineDisabledTwoFields}

ToggleFiles ==
    {None} \cup {Some(JoinLines(ls)) :
                    ls \in UNION {[1..n -> ToggleLines] : n \in 1..MaxToggleLines}}

InitToggle ==
    /\ rulesFile \in ToggleFiles
    /\ fileRules = GroupedOf(rulesFile)
    /\ loaded = TRUE
    /\ ev = IdleEval
    /\ mc = IdleCall
    /\ bulk = IdleBulk
    /\ calls = IdleCalls
    /\ rf = IdleRulesFileCall
    /\ mu = [IdleMutations EXCEPT !.original = rulesFile]
    /\ req = IdleRequest
    /\ log = IdleLog

\* the toggle of the settings tab: await toggleRuleByLine(adapter, pluginDir,
\* lineNumber, value); await this.reloadAndRefresh(containerEl)
ToggleRuleByLineCall ==
    /\ Len(mu.history) < MaxToggles
    /\ \E lineNumber \in -1..MaxToggleLines, enabled \in BOOLEAN :
          LET call == [IdleMutation EXCEPT !.op = "toggleRuleByLine",
                                           !.lineNumber = lineNumber,
                                           !.enabled = enabled]
          IN  /\ rulesFile' = MutateFile(rulesFile, call)
              /\ fileRules' = GroupedOf(MutateFile(rulesFile, call))
              /\ mu' = [mu EXCEPT !.history =
                           Append(@, [lineNumber |-> lineNumber, enabled |-> enabled,
                                      before |-> ReadContent(rulesFile),
                                      after |-> Get(MutateFile(rulesFile, call))])]
    /\ UNCHANGED <<loaded, ev, mc, bulk, calls, rf, req, log>>

NextToggle == ToggleRuleByLineCall

SpecToggle == InitToggle /\ [][NextToggle]_vars

\* the entries of the re-parsed file
EntriesOf(content) == ParseRulesFile(content).entries

IsEntryLine(content, n) ==
    \E i \in DOMAIN EntriesOf(content) : EntriesOf(content)[i].lineNumber = n

IsEnabledEntryLine(content, n) ==
    \E i \in DOMAIN EntriesOf(content) :
        EntriesOf(content)[i].lineNumber = n /\ EntriesOf(content)[i].rule.enabled

\* the entries with the enabled flag of the entry of line n set, all else kept
WithEnabled(entries, n, enabled) ==
    [i \in DOMAIN entries |->
        IF entries[i].lineNumber = n
        THEN [entries[i] EXCEPT !.rule.enabled = enabled]
        ELSE entries[i]]

DisablesEntry(h) == ~h.enabled /\ IsEntryLine(h.before, h.lineNumber)

\* call k repeats call k - 1
Repeats(k) ==
    /\ k > 1
    /\ mu.history[k].lineNumber = mu.history[k - 1].lineNumber
    /\ mu.history[k].enabled = mu.history[k - 1].enabled

\* call k is toggleRuleByLine(n, true) after call j was toggleRuleByLine(n, false)
\* on an enabled entry, with nothing but repetitions of call j in between
Undoes(k, j) ==
    /\ j < k
    /\ mu.history[k].enabled
    /\ ~mu.history[j].enabled
    /\ IsEnabledEntryLine(mu.history[j].before, mu.history[j].lineNumber)
    /\ \A m \in (j + 1)..k : mu.history[m].lineNumber = mu.history[j].lineNumber
    /\ \A m \in (j + 1)..(k - 1) : ~mu.history[m].enabled

\* C26: toggleRuleByLine(n, false) on the line of an entry leaves the
\* re-parsed file with that entry disabled and every other entry (rule, kind
\* and line number) as it was; the same call again leaves the file as it is;
\* a following toggleRuleByLine(n, true) gives back the entries the file had
\* before the entry was disabled; a line number outside the file changes no
\* line.
C26_ToggleFlipsOnlyThatEntry ==
    \A k \in DOMAIN mu.history :
        /\ DisablesEntry(mu.history[k])
           => EntriesOf(mu.history[k].after)
              = WithEnabled(EntriesOf(mu.history[k].before),
                            mu.history[k].lineNumber, FALSE)
        /\ (Repeats(k) /\ DisablesEntry(mu.history[k - 1]))
           => mu.history[k].after = mu.history[k].before
        /\ \A j \in 1..(k - 1) :
              Undoes(k, j)
              => EntriesOf(mu.history[k].after) = EntriesOf(mu.history[j].before)
        /\ (mu.history[k].lineNumber < 0
            \/ mu.history[k].lineNumber >= Len(SplitOn(mu.history[k].before, "\n")))
           => SplitOn(mu.history[k].after, "\n") = SplitOn(mu.history[k].before, "\n")

\* line 1 holds an enabled rule written with surrounding blanks, below a
\* disabled one: it is disabled, disabled again and enabled; the entries are
\* the original ones although the line is not
C26_Witness ==
    /\ Len(mu.history) = 3
    /\ mu.original = Some(JoinLines(<<lineDisabled, linePadded>>))
    /\ \A k \in 1..3 : mu.history[k].lineNumber = 1
    /\ ~mu.history[1].enabled /\ ~mu.history[2].enabled /\ mu.history[3].enabled
    /\ EntriesOf(mu.history[1].after) /= EntriesOf(mu.history[1].before)
    /\ EntriesOf(mu.history[3].after) = EntriesOf(Get(mu.original))
    /\ rulesFile /= mu.original

(***************************************************************************)
(* rules-file.ts: mutateFile calls of the settings tab in flight together. *)
(* Each click handler awaits adapter.read and adapter.write; nothing keeps *)
(* a second handler from starting in between.                              *)
(***************************************************************************)
MutateFiles ==
    {None, Some(lineFolder), Some(JoinLines(<<lineFolder, lineDisabled>>))}

\* the rules the "Add rule" modal hands to appendRule
AppendedRules ==
    {[filterType |-> "name", rule |-> ConcRule("deny", "name", <<"a">>)],
     [filterType |-> "keyword", rule |-> ConcRule("deny", "keyword", <<"x">>)]}

InitMutate ==
    /\ rulesFile \in MutateFiles
    /\ fileRules = GroupedOf(rulesFile)
    /\ loaded = TRUE
    /\ ev = IdleEval
    /\ mc = IdleCall
    /\ bulk = IdleBulk
    /\ calls = IdleCalls
    /\ rf = IdleRulesFileCall
    /\ mu = [IdleMutations EXCEPT !.original = rulesFile]
    /\ req = IdleRequest
    /\ log = IdleLog

\* appendRule(adapter, pluginDir, filterType, rule) to the await of adapter.read
AppendRuleCall(c) ==
    /\ mu.calls[c].pc = "idle"
    /\ \E a \in AppendedRules :
          mu' = [mu EXCEPT !.calls[c] =
                    [IdleMutation EXCEPT !.pc = "reading", !.op = "appendRule",
                                         !.line = SerializeRule(a.filterType, a.rule)]]
    /\ UNCHANGED <<rulesFile, fileRules, loaded, ev, mc, bulk, calls, rf, req, log>>

\* removeRuleByLine(adapter, pluginDir, lineNumber) to the await of adapter.read
RemoveRuleByLineCall(c) ==
    /\ mu.calls[c].pc = "idle"
    /\ \E lineNumber \in 0..1 :
          mu' = [mu EXCEPT !.calls[c] =
                    [IdleMutation EXCEPT !.pc = "reading", !.op = "removeRuleByLine",
                                         !.lineNumber = lineNumber]]
    /\ UNCHANGED <<rulesFile, fileRules, loaded, ev, mc, bulk, calls, rf, req, log>>

\* toggleRuleByLine(adapter, pluginDir, lineNumber, enabled) to the await of
\* adapter.read
ToggleRuleByLineStart(c) ==
    /\ mu.calls[c].pc = "idle"
    /\ \E lineNumber \in 0..1, enabled \in BOOLEAN :
          mu' = [mu EXCEPT !.calls[c] =
                    [IdleMutation EXCEPT !.pc = "reading", !.op = "toggleRuleByLine",
                                         !.lineNumber = lineNumber,
                                         !.enabled = enabled]]
    /\ UNCHANGED <<rulesFile, fileRules, loaded, ev, mc, bulk, calls, rf, req, log>>

\* adapter.read settles: content.split("\n"), mutator(lines), to the await of
\* adapter.write
MutateRead(c) ==
    /\ mu.calls[c].pc = "reading"
    /\ mu' = [mu EXCEPT !.calls[c].pc = "writing",
                        !.calls[c].updated =
                            Mutator(mu.calls[c], SplitOn(ReadContent(rulesFile), "\n"))]
    /\ UNCHANGED <<rulesFile, fileRules, loaded, ev, mc, bulk, calls, rf, req, log>>

\* adapter.write(rulesPath, updated.join("\n")) takes effect; the handler goes
\* on to reloadAndRefresh
MutateWrite(c) ==
    /\ mu.calls[c].pc = "writing"
    /\ rulesFile' = Some(JoinLines(mu.calls[c].updated))
    /\ fileRules' = GroupedOf(Some(JoinLines(mu.calls[c].updated)))
    /\ mu' = [mu EXCEPT !.calls[c].pc = "done"]
    /\ UNCHANGED <<loaded, ev, mc, bulk, calls, rf, req, log>>

NextMutate ==
    \E c \in 1..MaxMutations :
        \/ AppendRuleCall(c)
        \/ RemoveRuleByLineCall(c)
        \/ ToggleRuleByLineStart(c)
        \/ MutateRead(c)
        \/ MutateWrite(c)

SpecMutate == InitMutate /\ [][NextMutate]_vars

\* the files the calls leave when they run one after the other, in any order
RECURSIVE SerialOutcomes(_, _)
SerialOutcomes(file, cs) ==
    IF cs = {} THEN {file}
    ELSE UNION {SerialOutcomes(MutateFile(file, mu.calls[c]), cs \ {c}) : c \in cs}

AllMutationsDone == \A c \in 1..MaxMutations : mu.calls[c].pc = "done"

\* C28: when the rule-file mutations issued together have all completed, the
\* file reflects every one of them: it is a file the same calls leave when
\* they run one after the other.
C28_NoMutationLost ==
    AllMutationsDone => rulesFile \in SerialOutcomes(mu.original, 1..MaxMutations)

(***************************************************************************)
(* AuditLogger (audit-logger): logAccess, logError and appendToLog.  The   *)
(* adapter's answers arrive as separate steps; the adapter never fails.    *)
(***************************************************************************)
InitLog ==
    /\ rulesFile = None
    /\ fileRules = None
    /\ loaded = FALSE
    /\ ev = IdleEval
    /\ mc = IdleCall
    /\ bulk = IdleBulk
    /\ calls = IdleCalls
    /\ rf = IdleRulesFileCall
    /\ mu = IdleMutations
    /\ req = IdleRequest
    /\ log = IdleLog

\* appendToLog(logPath, line) to the pending adapter.exists(logPath)
AppendToLog(c, kind) ==
    [log EXCEPT !.calls[c] = [pc |-> "checking", kind |-> kind, exists |-> FALSE]]

\* logAccess(entry)
LogAccess(c) ==
    /\ log.calls[c].pc = "idle"
    /\ log' = AppendToLog(c, "access")
    /\ UNCHANGED <<rulesFile, fileRules, loaded, ev, mc, bulk, calls, rf, mu, req>>

\* logError(entry)
LogError(c) ==
    /\ log.calls[c].pc = "idle"
    /\ log' = AppendToLog(c, "error")
    /\ UNCHANGED <<rulesFile, fileRules, loaded, ev, mc, bulk, calls, rf, mu, req>>

\* adapter.exists(logPath) is answered
ExistsResolve(c) ==
    /\ log.calls[c].pc = "checking"
    /\ log' = [log EXCEPT !.calls[c].pc = "checked",
                          !.calls[c].exists = IsSome(log.files[log.calls[c].kind])]
    /\ UNCHANGED <<rulesFile, fileRules, loaded, ev, mc, bulk, calls, rf, mu, req>>

\* .then((exists) => exists ? adapter.append(logPath, line)
\*                          : adapter.write(logPath, line)); the line of call
\* c is c
AppendOrWrite(c) ==
    /\ log.calls[c].pc = "checked"
    /\ log' = [log EXCEPT
                  !.calls[c].pc = "done",
                  !.files[log.calls[c].kind] =
                      IF log.calls[c].exists
                      THEN Some(ReadContent(log.files[log.calls[c].kind]) \o <<c>>)
                      ELSE Some(<<c>>)]
    /\ UNCHANGED <<rulesFile, fileRules, loaded, ev, mc, bulk, calls, rf, mu, req>>

NextLog ==
    \E c \in 1..MaxLogCalls :
        \/ LogAccess(c)
        \/ LogError(c)
        \/ ExistsResolve(c)
        \/ AppendOrWrite(c)

SpecLog == InitLog /\ [][NextLog]_vars

\* the line of call c is in the log file of its kind
Logged(c) ==
    /\ IsSome(log.files[log.calls[c].kind])
    /\ \E i \in DOMAIN Get(log.files[log.calls[c].kind]) :
          Get(log.files[log.calls[c].kind])[i] = c

\* C29: a logAccess or logError call whose appendToLog has completed has its
\* line in the log file of its kind, and no later call removes it.
C29_NoLogLineLost ==
    \A c \in 1..MaxLogCalls : log.calls[c].pc = "done" => Logged(c)
====
